---- MODULE Spec2Model ----
(***************************************************************************)
(* A model of the analytical core of ProductAssociationForecast:          *)
(*   utils/association_analysis.py  (transaction matrix, Apriori, rules)  *)
(*   utils/forecasting.py           (training guard, demand prediction)   *)
(*   utils/inventory_optimization.py (safety stock, reorder points)       *)
(*                                                                         *)
(* Numbers that pandas/numpy hold as floats are modelled as exact          *)
(* rationals <<numerator, denominator>> with a positive denominator, and   *)
(* compared by cross-multiplication.  A Date is a day number.              *)
(***************************************************************************)
EXTENDS Integers, Sequences, FiniteSets, TLC

VARIABLES
    transaction_data,   \* argument of perform_association_analysis: rows (TransactionID, ProductID)
    assoc,              \* the last call of perform_association_analysis: its thresholds and what it returned
    data,               \* the sales table (Date, ProductID, Quantity) given to forecasting and inventory
    fc,                 \* the last call of train_forecasting_model or predict_demand and its outcome
    forecast_demand,    \* the forecast table (Date, ProductID, Predicted_Quantity) given to inventory
    today,              \* the day datetime.now().date() returns
    inv,                \* the last call of an inventory function and its outcome
    session             \* st.session_state of the application, and the last core call a page made

assocVars == <<transaction_data, assoc>>
forecastVars == <<data, fc>>
inventoryVars == <<forecast_demand, today, inv>>
vars == <<transaction_data, assoc, data, fc, forecast_demand, today, inv, session>>

----------------------------------------------------------------------------
(* Bounds of the model *)

\* Largest number of distinct TransactionIDs in an input table.
MaxTx == 4

\* ProductIDs that occur in input tables.
Products == {"A", "B", "C"}

\* Caller-supplied thresholds that are tried (rationals).
MinSupports == {<<1, 4>>, <<1, 2>>, <<3, 4>>, <<1, 1>>}
MinConfidences == {<<1, 2>>, <<3, 4>>, <<1, 1>>}
MinLifts == {<<1, 2>>, <<1, 1>>, <<3, 2>>}

----------------------------------------------------------------------------
(* The record of a call before any call was made *)

NoAssocCall ==
    [called |-> FALSE, min_support |-> <<1, 1>>, min_confidence |-> <<1, 1>>,
     min_lift |-> <<1, 1>>, path |-> "none", raised |-> FALSE,
     frequent_itemsets |-> <<>>, rules |-> <<>>,
     transaction_matrix |-> [index |-> {}, columns |-> {}, cell |-> <<>>]]

NoForecastCall ==
    [called |-> FALSE, op |-> "none", products_to_forecast |-> <<>>, horizon |-> 0,
     train_ratio |-> <<0, 1>>, outcome |-> "none", usable_rows |-> 0,
     feature_names_in_ |-> <<>>, indicator_columns |-> <<>>,
     train_data |-> <<>>, held_out |-> <<>>, columns |-> <<>>, rows |-> <<>>,
     features |-> {}]

NoInventoryCall ==
    [called |-> FALSE, op |-> "none", product_bundles |-> <<>>, lead_time_days |-> 0,
     service_level |-> <<0, 1>>, day |-> 0, outcome |-> "none", rows |-> {}]

\* src/app.py lines 352-367: every entry of the session starts as None, the
\* empty cell, and nobody is signed in; reached is the last call a page made
\* of a core function: the function, the lines it was given and the
\* session's dataset at that time; event is the last thing a page did.
NoSession ==
    [message |-> "none", event |-> "none", user |-> {},
     data |-> {}, preprocessed_data |-> {}, transaction_data |-> {},
     product_list |-> {}, frequent_itemsets |-> {}, association_rules |-> {},
     forecasting_model |-> {}, predictions |-> {},
     reached |-> [fn |-> "none", lines |-> {}, dataset |-> {}]]

----------------------------------------------------------------------------
(* Rational arithmetic on <<n, d>>, d > 0 *)

RatGeq(a, b) == a[1] * b[2] >= b[1] * a[2]
RatEq(a, b) == a[1] * b[2] = b[1] * a[2]

----------------------------------------------------------------------------
(* Column order of a one-hot matrix: TransactionEncoder sorts the item     *)
(* names; this is the sorted order of every ProductID of the model.        *)

ColumnOrder == <<"A", "B", "C", "Product A", "Product B", "Product C",
                 "Product D", "Product E", "Product F">>

Rank(p) == CHOOSE i \in DOMAIN ColumnOrder : ColumnOrder[i] = p

MinRank(S) == CHOOSE r \in {Rank(p) : p \in S} : \A q \in S : r <= Rank(q)
MaxRank(S) == CHOOSE r \in {Rank(p) : p \in S} : \A q \in S : r >= Rank(q)

\* Row order of an itemset table: by size, then lexicographic on the sorted
\* column indices (the order in which apriori generates the combinations).
ItemsetBefore(S, T) ==
    \/ Cardinality(S) < Cardinality(T)
    \/ /\ Cardinality(S) = Cardinality(T)
       /\ S # T
       /\ LET diff == (S \ T) \cup (T \ S)
          IN \E p \in S \ T : Rank(p) = MinRank(diff)

RECURSIVE ItemsetsInOrder(_)
ItemsetsInOrder(SS) ==
    IF SS = {} THEN <<>>
    ELSE LET first == CHOOSE S \in SS : \A T \in SS \ {S} : ItemsetBefore(S, T)
         IN <<first>> \o ItemsetsInOrder(SS \ {first})

----------------------------------------------------------------------------
(* create_transaction_matrix *)

\* a matrix of the same shape with every cell true
create_transaction_matrix_dense(td) ==
    LET index == {r.TransactionID : r \in td}
        columns == {r.ProductID : r \in td}
    IN [index |-> index,
        columns |-> columns,
        cell |-> [t \in index |-> [p \in columns |-> TRUE]]]

\* groupby('TransactionID')['ProductID'].apply(list), then TransactionEncoder:
\* one row per TransactionID, one column per ProductID seen, cell = membership.
create_transaction_matrix(td) ==
    LET index == {r.TransactionID : r \in td}
        columns == {r.ProductID : r \in td}
        transaction_list == [t \in index |->
                               {r.ProductID : r \in {x \in td : x.TransactionID = t}}]
    IN [index |-> index,
        columns |-> columns,
        cell |-> [t \in index |-> [p \in columns |-> p \in transaction_list[t]]]]

\* DataFrame.empty
MatrixEmpty(m) == m.index = {} \/ m.columns = {}

\* Number of rows of the matrix in which every column of S is true.
SupportCount(m, S) ==
    Cardinality({t \in m.index : \A p \in S : p \in m.columns /\ m.cell[t][p]})

----------------------------------------------------------------------------
(* mlxtend.frequent_patterns.apriori, as called by the repository *)

\* support of every column combination, as a count of rows (np.all over the
\* combination's columns, summed)
SupportTable(m) == [S \in SUBSET m.columns |-> SupportCount(m, S)]

\* the same with np.any in place of np.all: a row counts when it holds any
\* item of the combination
SupportTableAny(m) ==
    [S \in SUBSET m.columns |->
        Cardinality({t \in m.index : \E p \in S : m.cell[t][p]})]

\* The level-wise loop.  Lk holds the surviving k-itemsets; the candidates of
\* size k+1 extend a survivor by an item of some survivor whose column index is
\* larger than all of its own (generate_new_combinations); those reaching
\* min_support survive.  The loop runs while k < (max_len or infinity).
RECURSIVE apriori_levels(_, _, _, _, _, _)
apriori_levels(supp, n, min_support, max_len, k, Lk) ==
    IF max_len # 0 /\ k >= max_len THEN Lk
    ELSE LET items == UNION Lk
             combin == {x[1] \cup {x[2]} :
                          x \in {y \in Lk \X items : Rank(y[2]) > MaxRank(y[1])}}
             kept == {c \in combin : RatGeq(<<supp[c], n>>, min_support)}
         IN IF kept = {} THEN Lk
            ELSE Lk \cup apriori_levels(supp, n, min_support, max_len, k + 1, kept)

\* The itemset table: rows (support, itemsets), level by level.
apriori_table(supp, m, min_support, max_len) ==
    LET n == Cardinality(m.index)
        L1 == {{p} : p \in {q \in m.columns : RatGeq(<<supp[{q}], n>>, min_support)}}
        all == IF L1 = {} THEN {} ELSE apriori_levels(supp, n, min_support, max_len, 1, L1)
        order == ItemsetsInOrder(all)
    IN [i \in 1..Len(order) |-> [support |-> <<supp[order[i]], n>>, itemsets |-> order[i]]]

apriori_any(m, min_support, max_len) ==
    apriori_table(SupportTableAny(m), m, min_support, max_len)

\* max_len = 0 stands for max_len=None
apriori(m, min_support, max_len) ==
    apriori_table(SupportTable(m), m, min_support, max_len)

----------------------------------------------------------------------------
(* mlxtend.frequent_patterns.association_rules(metric="confidence") *)

HasItemset(fi, S) == \E i \in DOMAIN fi : fi[i].itemsets = S
SupportOf(fi, S) == fi[CHOOSE i \in DOMAIN fi : fi[i].itemsets = S].support

\* antecedents of an itemset: combinations of size idx = len-1 down to 1
RECURSIVE AntecedentsFrom(_, _)
AntecedentsFrom(S, idx) ==
    IF idx = 0 THEN <<>>
    ELSE ItemsetsInOrder({c \in SUBSET S : Cardinality(c) = idx})
            \o AntecedentsFrom(S, idx - 1)

RuleRow(fi, S, a) ==
    LET sAC == SupportOf(fi, S)
        sA == SupportOf(fi, a)
        sC == SupportOf(fi, S \ a)
        conf == <<sAC[1] * sA[2], sAC[2] * sA[1]>>
    IN [antecedents |-> a,
        consequents |-> S \ a,
        support |-> sAC,
        confidence |-> conf,
        lift |-> <<conf[1] * sC[2], conf[2] * sC[1]>>]

RECURSIVE RulesFrom(_, _, _)
RulesFrom(fi, i, min_threshold) ==
    IF i > Len(fi) THEN <<>>
    ELSE LET S == fi[i].itemsets
             ants == AntecedentsFrom(S, Cardinality(S) - 1)
             rows == [j \in 1..Len(ants) |-> RuleRow(fi, S, ants[j])]
         IN SelectSeq(rows, LAMBDA r : RatGeq(r.confidence, min_threshold))
               \o RulesFrom(fi, i + 1, min_threshold)

\* The support of an antecedent or consequent is looked up in the itemset
\* table; a missing entry raises KeyError.
association_rules(fi, min_threshold) ==
    LET missing == \E i \in DOMAIN fi :
                     \E c \in (SUBSET fi[i].itemsets) \ {{}, fi[i].itemsets} :
                        ~HasItemset(fi, c)
    IN [raised |-> missing,
        rows |-> IF missing THEN <<>> ELSE RulesFrom(fi, 1, min_threshold)]

----------------------------------------------------------------------------
(* rules.sort_values('lift', ascending=False) *)

RECURSIVE InsertAscending(_, _)
InsertAscending(r, sorted) ==
    IF sorted = <<>> THEN <<r>>
    ELSE IF RatGeq(r.lift, Head(sorted).lift) /\ ~RatEq(r.lift, Head(sorted).lift)
         THEN <<Head(sorted)>> \o InsertAscending(r, Tail(sorted))
         ELSE <<r>> \o sorted

RECURSIVE SortAscending(_)
SortAscending(rules) ==
    IF rules = <<>> THEN <<>>
    ELSE InsertAscending(Head(rules), SortAscending(Tail(rules)))

\* Rows with equal lift keep their order.
RECURSIVE InsertDescending(_, _)
InsertDescending(r, sorted) ==
    IF sorted = <<>> THEN <<r>>
    ELSE IF RatGeq(Head(sorted).lift, r.lift) /\ ~RatEq(r.lift, Head(sorted).lift)
         THEN <<Head(sorted)>> \o InsertDescending(r, Tail(sorted))
         ELSE <<r>> \o sorted

RECURSIVE SortDescending(_)
SortDescending(rules) ==
    IF rules = <<>> THEN <<>>
    ELSE InsertDescending(Head(rules), SortDescending(Tail(rules)))

sort_values_lift_ascending(rules) == SortAscending(rules)

sort_values_lift(rules) == SortDescending(rules)

----------------------------------------------------------------------------
(* create_sample_association_data *)

SampleTransactions ==
    << {"Product A", "Product B"},
       {"Product A", "Product C"},
       {"Product A", "Product B", "Product C"},
       {"Product B", "Product C"},
       {"Product B", "Product D"},
       {"Product C", "Product D"},
       {"Product A", "Product D"},
       {"Product A", "Product B", "Product D"},
       {"Product A", "Product C", "Product D"},
       {"Product B", "Product C", "Product D"},
       {"Product E", "Product F"},
       {"Product D", "Product E"},
       {"Product C", "Product F"},
       {"Product A", "Product F"} >>

SampleMatrix ==
    LET index == DOMAIN SampleTransactions
        columns == UNION {SampleTransactions[t] : t \in index}
    IN [index |-> index,
        columns |-> columns,
        cell |-> [t \in index |-> [p \in columns |-> p \in SampleTransactions[t]]]]

\* apriori(df, min_support=0.2) without max_len, then
\* association_rules(metric="confidence", min_threshold=0.5): neither filtered
\* by lift nor sorted.
create_sample_association_data ==
    LET frequent_itemsets == apriori(SampleMatrix, <<2, 10>>, 0)
        rules == association_rules(frequent_itemsets, <<5, 10>>)
    IN [path |-> "sample",
        raised |-> rules.raised,
        frequent_itemsets |-> frequent_itemsets,
        rules |-> rules.rows]

----------------------------------------------------------------------------
(* perform_association_analysis *)

\* max_len=4 of the apriori call
AprioriMaxLen == 4

filter_by_lift(rules, min_lift) ==
    SelectSeq(rules, LAMBDA r : RatGeq(r.lift, min_lift))

perform_association_analysis(td, min_support, min_confidence, min_lift) ==
    LET transaction_matrix == create_transaction_matrix(td)
    IN IF MatrixEmpty(transaction_matrix) THEN create_sample_association_data
       ELSE
       LET frequent_itemsets == apriori(transaction_matrix, min_support, AprioriMaxLen)
       IN IF Len(frequent_itemsets) = 0 THEN create_sample_association_data
          ELSE
          LET generated == association_rules(frequent_itemsets, min_confidence)
              rules == filter_by_lift(generated.rows, min_lift)
          IN IF generated.raised
             THEN [path |-> "raise", raised |-> TRUE,
                   frequent_itemsets |-> <<>>, rules |-> <<>>]
             ELSE IF Len(rules) = 0 THEN create_sample_association_data
             ELSE [path |-> "mined",
                   raised |-> FALSE,
                   frequent_itemsets |-> frequent_itemsets,
                   rules |-> sort_values_lift(rules)]

----------------------------------------------------------------------------
(* Tables of the forecasting functions.  A cell that pandas may hold as    *)
(* NaN is a set: {} for NaN, {v} for the value v.                          *)

NaN == {}
Cell(v) == {v}
IsNull(c) == c = {}
fillna(c, v) == IF c = {} THEN {v} ELSE c

RECURSIVE SumQuantity(_)
SumQuantity(rows) ==
    IF rows = {} THEN 0
    ELSE LET r == CHOOSE x \in rows : TRUE
         IN r.Quantity + SumQuantity(rows \ {r})

RECURSIVE SumSquares(_)
SumSquares(rows) ==
    IF rows = {} THEN 0
    ELSE LET r == CHOOSE x \in rows : TRUE
         IN r.Quantity * r.Quantity + SumSquares(rows \ {r})

\* data.groupby(['Date', 'ProductID'])['Quantity'].sum().reset_index()
aggregate_daily_sales(d) ==
    {[Date |-> k[1], ProductID |-> k[2],
      Quantity |-> SumQuantity({r \in d : r.Date = k[1] /\ r.ProductID = k[2]})] :
        k \in {<<r.Date, r.ProductID>> : r \in d}}

\* groupby('ProductID')['Quantity'].shift(lag) on the rows sorted by
\* (ProductID, Date): the quantity of the product's row lag positions earlier
shift(daily, r, lag) ==
    LET earlier == {x \in daily : x.ProductID = r.ProductID /\ x.Date < r.Date}
        target == {x \in earlier :
                     Cardinality({y \in earlier : y.Date > x.Date}) = lag - 1}
    IN {x.Quantity : x \in target}

\* the product's last `window` rows up to and including r
RollingWindow(daily, r, window) ==
    LET upto == {x \in daily : x.ProductID = r.ProductID /\ x.Date <= r.Date}
    IN {x \in upto : Cardinality({y \in upto : y.Date > x.Date}) < window}

\* rolling(window, min_periods=1).mean(): the rational sum / count
rolling_mean(daily, r, window) ==
    LET w == RollingWindow(daily, r, window)
    IN Cell(<<SumQuantity(w), Cardinality(w)>>)

\* rolling(window, min_periods=1).std(): the sample standard deviation
\* (ddof=1), NaN on a single row.  The cell holds its square, the variance
\* (n*sum(x^2) - sum(x)^2) / (n*(n-1)).
rolling_std(daily, r, window) ==
    LET w == RollingWindow(daily, r, window)
        n == Cardinality(w)
    IN IF n < 2 THEN NaN
       ELSE Cell(<<n * SumSquares(w) - SumQuantity(w) * SumQuantity(w), n * (n - 1)>>)

\* create_lag_features: the lag and rolling columns, their NaN filled with 0
create_lag_features(daily) ==
    {[Date |-> r.Date, ProductID |-> r.ProductID, Quantity |-> r.Quantity,
      Quantity_Lag1 |-> fillna(shift(daily, r, 1), 0),
      Quantity_Lag7 |-> fillna(shift(daily, r, 7), 0),
      Quantity_Lag14 |-> fillna(shift(daily, r, 14), 0),
      Quantity_Lag30 |-> fillna(shift(daily, r, 30), 0),
      Quantity_RollingMean7 |-> fillna(rolling_mean(daily, r, 7), <<0, 1>>),
      Quantity_RollingMean14 |-> fillna(rolling_mean(daily, r, 14), <<0, 1>>),
      Quantity_RollingMean30 |-> fillna(rolling_mean(daily, r, 30), <<0, 1>>),
      Quantity_RollingStd7 |-> fillna(rolling_std(daily, r, 7), <<0, 1>>)] : r \in daily}

\* Columns of the feature table.  The calendar columns of
\* create_time_features (Year ... IsMonthEnd) are functions of Date and never
\* NaN; a row carries them through its Date.
TimeColumns == <<"Year", "Month", "Day", "DayOfWeek", "Quarter", "WeekOfYear",
                 "IsWeekend", "IsMonthStart", "IsMonthEnd">>
LagColumns == <<"Quantity_Lag1", "Quantity_Lag7", "Quantity_Lag14", "Quantity_Lag30",
                "Quantity_RollingMean7", "Quantity_RollingMean14",
                "Quantity_RollingMean30", "Quantity_RollingStd7">>
ForecastColumns == <<"Date", "ProductID", "Quantity">> \o TimeColumns \o LagColumns

SeqRange(q) == {q[i] : i \in DOMAIN q}

\* prepare_forecast_features(data, None): no association rules are passed
prepare_forecast_features(d) == create_lag_features(aggregate_daily_sales(d))

\* DataFrame.dropna(): the rows without a NaN cell
dropna(rows) ==
    {r \in rows : \A c \in SeqRange(LagColumns) : ~IsNull(r[c])}

----------------------------------------------------------------------------
(* train_forecasting_model *)

\* Lines 30-37: the feature rows of the requested products without NaN
UsableRows(d, products_to_forecast) ==
    dropna({r \in prepare_forecast_features(d) :
              r.ProductID \in SeqRange(products_to_forecast)})

\* forecast_data.sort_values('Date') as the sequence of its (Date, ProductID)
\* keys.  The rows come in (ProductID, Date) order from create_lag_features
\* and the sort of so few rows keeps equal dates in that order.
RECURSIVE sort_values_Date(_)
sort_values_Date(rows) ==
    IF rows = {} THEN <<>>
    ELSE LET first == CHOOSE r \in rows : \A x \in rows :
                          \/ r.Date < x.Date
                          \/ r.Date = x.Date /\ Rank(r.ProductID) <= Rank(x.ProductID)
         IN <<[Date |-> first.Date, ProductID |-> first.ProductID]>>
                \o sort_values_Date(rows \ {first})

\* int(len(forecast_data) * train_ratio)
split_index(n, train_ratio) == (n * train_ratio[1]) \div train_ratio[2]

\* the ProductID_<p> columns pd.get_dummies makes of a ProductID column: one
\* per product occurring in the rows, in sorted order
RECURSIVE get_dummies_ProductID(_)
get_dummies_ProductID(products) ==
    IF products = {} THEN <<>>
    ELSE LET first == CHOOSE p \in products : \A q \in products : Rank(p) <= Rank(q)
         IN <<first>> \o get_dummies_ProductID(products \ {first})

\* Lines 42-84.  X = forecast_data[feature_columns] holds no ProductID column
\* (line 44 excludes it), so pd.get_dummies(X, columns=['ProductID']) raises
\* KeyError at line 51, before the split and the fit; were the column there,
\* the rows would be sorted by Date, the first split_index of them would be
\* the training rows, and the model would be returned with the columns of
\* the encoded training rows.
TrainOnRows(forecast_data, train_ratio) ==
    LET feature_columns ==
            SelectSeq(ForecastColumns,
                      LAMBDA c : c \notin {"Date", "ProductID", "Quantity"})
        sorted == sort_values_Date(forecast_data)
        k == split_index(Len(sorted), train_ratio)
        train_data == SubSeq(sorted, 1, k)
    IN IF "ProductID" \notin SeqRange(feature_columns)
       THEN [outcome |-> "KeyError", usable_rows |-> Cardinality(forecast_data),
             feature_names_in_ |-> <<>>, indicator_columns |-> <<>>,
             train_data |-> <<>>, held_out |-> <<>>]
       ELSE [outcome |-> "returned", usable_rows |-> Cardinality(forecast_data),
             feature_names_in_ |->
                 SelectSeq(feature_columns, LAMBDA c : c # "ProductID"),
             indicator_columns |->
                 get_dummies_ProductID({train_data[i].ProductID : i \in DOMAIN train_data}),
             train_data |-> train_data,
             held_out |-> SubSeq(sorted, k + 1, Len(sorted))]

\* the same without the guard of lines 39-40
train_forecasting_model_unguarded(d, products_to_forecast, train_ratio) ==
    TrainOnRows(UsableRows(d, products_to_forecast), train_ratio)

\* train_forecasting_model(data, products_to_forecast, None, train_ratio)
train_forecasting_model(d, products_to_forecast, train_ratio) ==
    LET forecast_data == UsableRows(d, products_to_forecast)
    IN IF Cardinality(forecast_data) = 0
       THEN [outcome |-> "ValueError", usable_rows |-> 0, feature_names_in_ |-> <<>>,
             indicator_columns |-> <<>>, train_data |-> <<>>, held_out |-> <<>>]
       ELSE TrainOnRows(forecast_data, train_ratio)

----------------------------------------------------------------------------
(* predict_demand *)

\* no clipping
clip_lower_identity(x) == x

\* Series.clip(lower=0)
clip_lower(x) == IF x < 0 THEN 0 ELSE x

\* data['Date'].max(); 0 stands for NaT on an empty table
latest_date(d) ==
    IF d = {} THEN 0
    ELSE CHOOSE m \in {r.Date : r \in d} : \A r \in d : r.Date <= m

\* One pass of the loop body after the guard: a row per future date, the
\* model's output for it (model_output[j]) clipped at 0.
FutureRows(model_output, d, product_id, horizon) ==
    [j \in 1..horizon |->
        [Date |-> latest_date(d) + j,
         ProductID |-> product_id,
         model_output |-> model_output[j],
         Predicted_Quantity |-> clip_lower(model_output[j])]]

\* the loop body without the guard of lines 121-122
ProductForecastNoSkip(model_output, d, product_id, horizon) ==
    FutureRows(model_output, d, product_id, horizon)

\* The loop body, lines 117-216: a product without rows in data is skipped.
ProductForecast(model_output, d, product_id, horizon) ==
    IF {r \in d : r.ProductID = product_id} = {} THEN <<>>
    ELSE FutureRows(model_output, d, product_id, horizon)

RECURSIVE AllPredictions(_, _, _, _, _)
AllPredictions(model_outputs, d, products_to_forecast, horizon, i) ==
    IF i > Len(products_to_forecast) THEN <<>>
    ELSE ProductForecast(model_outputs[i], d, products_to_forecast[i], horizon)
            \o AllPredictions(model_outputs, d, products_to_forecast, horizon, i + 1)

\* model_outputs[i][j] is what model.predict returns for the j-th future row
\* of the i-th requested product.  Both return paths (lines 219-224) give a
\* table with the columns Date, ProductID, Predicted_Quantity.
predict_demand(model_outputs, d, products_to_forecast, horizon) ==
    [outcome |-> "returned",
     columns |-> <<"Date", "ProductID", "Predicted_Quantity">>,
     rows |-> AllPredictions(model_outputs, d, products_to_forecast, horizon, 1)]

----------------------------------------------------------------------------
(* Forecasting as a state machine: a sales table, and one call on it *)

\* Largest number of rows of a sales table.
MaxRows == 3
\* Largest forecast horizon, in days.
MaxHorizon == 2
\* Largest number of entries of products_to_forecast.
MaxRequest == 2

\* Dates (day numbers), products and quantities of the sales rows.
Dates == {1, 3}
HistoryProducts == {"A", "B"}
Quantities == {1, 2}
\* Products a caller may ask for; a table need not hold rows of both.
RequestProducts == HistoryProducts
\* Values the fitted regressor may output for a row.
ModelOutputs == {-1, 2}
\* train_ratio values tried
TrainRatios == {<<1, 2>>, <<4, 5>>}

SalesRows == [Date : Dates, ProductID : HistoryProducts, Quantity : Quantities]
SalesTables == {d \in SUBSET SalesRows : Cardinality(d) <= MaxRows}
RequestLists == UNION {[1..n -> RequestProducts] : n \in 0..MaxRequest}

InitForecast ==
    /\ data \in SalesTables
    /\ fc = NoForecastCall
    /\ transaction_data = {}
    /\ assoc = NoAssocCall
    /\ forecast_demand = {}
    /\ today = 0
    /\ inv = NoInventoryCall
    /\ session = NoSession

\* One call of train_forecasting_model on the table; the arguments are drawn
\* only while no call was made.
TrainForecastingModel ==
    /\ ~fc.called
    /\ \E products_to_forecast \in RequestLists, train_ratio \in TrainRatios :
          LET out == train_forecasting_model(data, products_to_forecast, train_ratio)
          IN fc' = [NoForecastCall EXCEPT
                       !.called = TRUE, !.op = "train",
                       !.products_to_forecast = products_to_forecast,
                       !.train_ratio = train_ratio,
                       !.outcome = out.outcome,
                       !.usable_rows = out.usable_rows,
                       !.feature_names_in_ = out.feature_names_in_,
                       !.indicator_columns = out.indicator_columns,
                       !.train_data = out.train_data,
                       !.held_out = out.held_out]
    /\ UNCHANGED <<data, transaction_data, assoc, inventoryVars, session>>

\* One call of predict_demand on the table, with a model of any outputs.
PredictDemand ==
    /\ ~fc.called
    /\ \E products_to_forecast \in RequestLists, horizon \in 1..MaxHorizon :
          \E model_outputs \in [DOMAIN products_to_forecast ->
                                   [1..horizon -> ModelOutputs]] :
             LET out == predict_demand(model_outputs, data, products_to_forecast, horizon)
             IN fc' = [NoForecastCall EXCEPT
                          !.called = TRUE, !.op = "predict",
                          !.products_to_forecast = products_to_forecast,
                          !.horizon = horizon,
                          !.outcome = out.outcome,
                          !.columns = out.columns,
                          !.rows = out.rows]
    /\ UNCHANGED <<data, transaction_data, assoc, inventoryVars, session>>

NextForecast ==
    \/ TrainForecastingModel
    \/ PredictDemand

SpecForecast == InitForecast /\ [][NextForecast]_vars

----------------------------------------------------------------------------
(* predict_demand, lines 124-209: the feature table of the future rows *)

\* sort_values('Date', ascending=False) of a daily table (one row per Date)
RECURSIVE sort_values_descending(_)
sort_values_descending(daily) ==
    IF daily = {} THEN <<>>
    ELSE LET first == CHOOSE x \in daily : \A y \in daily : y.Date <= x.Date
         IN <<first>> \o sort_values_descending(daily \ {first})

\* .head(n)
head(q, n) == SubSeq(q, 1, IF n < Len(q) THEN n ELSE Len(q))

\* every daily record of the product, latest first
all_daily_data(sorted) == sorted

\* line 134: daily_data.sort_values('Date', ascending=False).head(30)
last_30d_data(sorted) == head(sorted, 30)

\* mean and sample variance of the quantities of a set of daily records;
\* std() of a single record is NaN and is replaced by 0 (lines 168-169)
MeanQuantity(rows) == <<SumQuantity(rows), Cardinality(rows)>>
VarianceOrZero(rows) ==
    LET n == Cardinality(rows)
    IN IF n < 2 THEN <<0, 1>>
       ELSE <<n * SumSquares(rows) - SumQuantity(rows) * SumQuantity(rows), n * (n - 1)>>

\* lines 131-169, for a product with rows in data; iloc[k] is element k + 1.
\* Quantity_RollingStd7 holds the square of the standard deviation.
latest_values(d, product_id) ==
    LET daily_data == aggregate_daily_sales({r \in d : r.ProductID = product_id})
        recent == last_30d_data(sort_values_descending(daily_data))
        n == Len(recent)
        latest_qty == recent[1].Quantity
    IN [Quantity_Lag1 |-> latest_qty,
        Quantity_Lag7 |-> IF n >= 7 THEN recent[7].Quantity ELSE latest_qty,
        Quantity_Lag14 |-> IF n >= 14 THEN recent[14].Quantity ELSE latest_qty,
        Quantity_Lag30 |-> IF n >= 30 THEN recent[30].Quantity ELSE latest_qty,
        Quantity_RollingMean7 |-> MeanQuantity(SeqRange(head(recent, 7))),
        Quantity_RollingMean14 |-> MeanQuantity(SeqRange(head(recent, 14))),
        Quantity_RollingMean30 |-> MeanQuantity(SeqRange(recent)),
        Quantity_RollingStd7 |-> VarianceOrZero(SeqRange(head(recent, 7)))]

\* f'ProductID_{prod_id}'
IndicatorColumn(prod_id) ==
    CASE prod_id = "A" -> "ProductID_A"
      [] prod_id = "B" -> "ProductID_B"
      [] prod_id = "C" -> "ProductID_C"

\* The cell of column col in the row of future_df for product_id and date,
\* latest being the product's latest_values.
\* A calendar column is a function of the date and holds the date here
\* (lines 178-182); the lag and rolling columns hold the latest values (lines
\* 185-186); AssociatedProductSales is 0 (lines 189-190); the indicator
\* column of a requested product is 1 for product_id, else 0 (lines 193-195);
\* any other column is added with 0 (lines 204-206).
future_cell(col, latest, products_to_forecast, product_id, date) ==
    IF col = "Date" \/ col \in SeqRange(TimeColumns) THEN date
    ELSE IF col = "ProductID" THEN product_id
    ELSE IF col \in SeqRange(LagColumns) THEN latest[col]
    ELSE IF \E p \in SeqRange(products_to_forecast) :
               col = IndicatorColumn(p) /\ p = product_id
    THEN 1
    ELSE 0

\* the columns of future_df before line 204: those built for the future rows
future_df_columns(feature_names_in_, products_to_forecast) ==
    {"Date", "ProductID"} \cup SeqRange(TimeColumns) \cup SeqRange(LagColumns)
        \cup (IF "AssociatedProductSales" \in SeqRange(feature_names_in_)
              THEN {"AssociatedProductSales"} ELSE {})
        \cup {IndicatorColumn(p) : p \in SeqRange(products_to_forecast)}

\* line 198: the stored columns that were built, in the stored order
present_columns(feature_names_in_, products_to_forecast) ==
    SelectSeq(feature_names_in_,
              LAMBDA c : c \in future_df_columns(feature_names_in_, products_to_forecast))

\* line 209: future_df[model.feature_names_in_]
all_stored_columns(feature_names_in_, products_to_forecast) == feature_names_in_

\* X_future of one requested product with rows in data: per future date the
\* cells (column, value) in the order of the selected columns
X_future(feature_names_in_, d, products_to_forecast, product_id, horizon) ==
    LET selected == all_stored_columns(feature_names_in_, products_to_forecast)
        latest == latest_values(d, product_id)
        last == latest_date(d)
    IN [j \in 1..horizon |->
           [k \in DOMAIN selected |->
               [column |-> selected[k],
                value |-> future_cell(selected[k], latest, products_to_forecast,
                                      product_id, last + j)]]]

\* what the loop hands to model.predict, product by product, in loop order
RECURSIVE AllFutureTables(_, _, _, _, _)
AllFutureTables(feature_names_in_, d, products_to_forecast, horizon, i) ==
    IF i > Len(products_to_forecast) THEN <<>>
    ELSE LET product_id == products_to_forecast[i]
             rest == AllFutureTables(feature_names_in_, d, products_to_forecast,
                                     horizon, i + 1)
         IN IF {r \in d : r.ProductID = product_id} = {} THEN rest
            ELSE <<[ProductID |-> product_id,
                    latest_values |-> latest_values(d, product_id),
                    X_future |-> X_future(feature_names_in_, d, products_to_forecast,
                                          product_id, horizon)]>> \o rest

----------------------------------------------------------------------------
(* Prediction as a state machine: a history of product A of some length,   *)
(* with or without a line of product B, a stored model, and one call       *)

\* number of consecutive days on which A was sold
HistoryLengths == {1, 2, 7, 14, 30, 31}

\* A's quantity on day i of its history
QuantityPatterns == {"first", "saw"}
PatternQuantity(pattern, i) ==
    CASE pattern = "first" -> IF i = 1 THEN 9 ELSE 1
      [] pattern = "saw" -> 1 + (i % 3)

LongHistory(n, pattern, with_b) ==
    {[Date |-> i, ProductID |-> "A", Quantity |-> PatternQuantity(pattern, i)] :
        i \in 1..n}
      \cup (IF with_b THEN {[Date |-> 1, ProductID |-> "B", Quantity |-> 2]} ELSE {})

LongHistories ==
    {LongHistory(x[1], x[2], x[3]) : x \in HistoryLengths \X QuantityPatterns \X BOOLEAN}

\* feature lists a stored model may carry: of a model trained without and
\* with association features, on other products than those requested, and
\* with a column that predict_demand does not build
StoredFeatureLists ==
    {<<"Year", "DayOfWeek", "Quantity_Lag1", "Quantity_Lag7", "Quantity_RollingMean7",
       "Quantity_RollingMean30", "Quantity_RollingStd7", "ProductID_A", "ProductID_B">>,
     <<"ProductID_C", "Quantity_Lag30", "AssociatedProductSales", "ProductID_B",
       "Month", "Quantity_RollingMean14">>,
     <<"Quantity_Lag14", "Promotion", "ProductID_A">>}

InitPredict ==
    /\ data \in LongHistories
    /\ fc = NoForecastCall
    /\ transaction_data = {}
    /\ assoc = NoAssocCall
    /\ forecast_demand = {}
    /\ today = 0
    /\ inv = NoInventoryCall
    /\ session = NoSession

\* One call of predict_demand with a stored model whose outputs depend on
\* the future date only.
PredictWithStoredModel ==
    /\ ~fc.called
    /\ \E products_to_forecast \in RequestLists, horizon \in 1..MaxHorizon,
          feature_names_in_ \in StoredFeatureLists :
          \E model_output \in [1..horizon -> ModelOutputs] :
             LET out == predict_demand([i \in DOMAIN products_to_forecast |-> model_output],
                                       data, products_to_forecast, horizon)
             IN fc' = [NoForecastCall EXCEPT
                          !.called = TRUE, !.op = "predict",
                          !.products_to_forecast = products_to_forecast,
                          !.horizon = horizon,
                          !.feature_names_in_ = feature_names_in_,
                          !.outcome = out.outcome,
                          !.columns = out.columns,
                          !.rows = out.rows,
                          !.features = AllFutureTables(feature_names_in_, data,
                                                       products_to_forecast, horizon, 1)]
    /\ UNCHANGED <<data, transaction_data, assoc, inventoryVars, session>>

NextPredict == PredictWithStoredModel

SpecPredict == InitPredict /\ [][NextPredict]_vars

----------------------------------------------------------------------------
(* add_association_features, and prepare_forecast_features with rules *)

\* Lines 320-334 for one product: the (consequent, confidence) pairs appended
\* to product_associations[product_id], rule by rule from row i on; a product
\* that is antecedent of no rule has no entry, which the empty list stands for
\* (an entry is never an empty list, consequents being non-empty).
RECURSIVE product_associations(_, _, _)
product_associations(rules, product_id, i) ==
    IF i > Len(rules) THEN <<>>
    ELSE LET row == rules[i]
             consequents == get_dummies_ProductID(row.consequents)
             pairs == [k \in DOMAIN consequents |->
                          [product |-> consequents[k], confidence |-> row.confidence]]
         IN (IF product_id \in row.antecedents THEN pairs ELSE <<>>)
                \o product_associations(rules, product_id, i + 1)

\* Lines 349-359: associated_sales and associated_count after the loop over
\* the pairs from position i on, as [sales |-> rational, count |-> n]
RECURSIVE associated_totals(_, _, _, _)
associated_totals(df, associated_products, date, i) ==
    IF i > Len(associated_products) THEN [sales |-> <<0, 1>>, count |-> 0]
    ELSE LET rest == associated_totals(df, associated_products, date, i + 1)
             pair == associated_products[i]
             sales_value == {x.Quantity : x \in
                                {y \in df : y.ProductID = pair.product /\ y.Date = date}}
         IN IF sales_value = {} THEN rest
            ELSE LET q == CHOOSE v \in sales_value : TRUE
                 IN [sales |-> <<q * pair.confidence[1] * rest.sales[2]
                                    + rest.sales[1] * pair.confidence[2],
                                 pair.confidence[2] * rest.sales[2]>>,
                     count |-> rest.count + 1]

\* the total instead of the average
avg_associated_sales_total(totals) == totals.sales

\* Lines 362-365
avg_associated_sales(totals) ==
    IF totals.count > 0
    THEN <<totals.sales[1], totals.sales[2] * totals.count>>
    ELSE <<0, 1>>

\* add_association_features(daily_sales, association_rules, transaction_data):
\* every row gets the column AssociatedProductSales, the value of lines
\* 341-369 for a product with an entry and the 0 of line 373 otherwise
add_association_features(daily_sales, rules) ==
    {LET associated_products ==
             product_associations(rules, r.ProductID, 1)
         value ==
             IF associated_products = <<>> THEN <<0, 1>>
             ELSE avg_associated_sales(
                      associated_totals(daily_sales, associated_products, r.Date, 1))
     IN [f \in DOMAIN r \cup {"AssociatedProductSales"} |->
            IF f = "AssociatedProductSales" THEN value ELSE r[f]] :
        r \in daily_sales}

\* prepare_forecast_features(data, association_rules) with a rules table:
\* lines 242-243 add the association column unless the table is empty
prepare_forecast_features_rules(d, rules) ==
    IF rules = <<>> THEN prepare_forecast_features(d)
    ELSE add_association_features(prepare_forecast_features(d), rules)

----------------------------------------------------------------------------
(* Feature building as a state machine: transaction lines, a rules table,  *)
(* and one call of prepare_forecast_features on them                       *)

\* Largest number of rows of the rules table.
MaxRules == 2

FeatureProducts == {"A", "B", "C"}
FeatureRows == [Date : Dates, ProductID : FeatureProducts, Quantity : Quantities]
FeatureTables == {d \in SUBSET FeatureRows : Cardinality(d) <= MaxRows}

\* confidence given to a rule of the table, by its shape
RuleConfidence(antecedents, consequents) ==
    IF Cardinality(antecedents) > 1 THEN <<1, 1>>
    ELSE IF Cardinality(consequents) > 1 THEN <<1, 2>>
    ELSE <<3, 5>>

\* every rule over FeatureProducts: disjoint non-empty antecedents, consequents
CandidateRules ==
    {[antecedents |-> x[1], consequents |-> x[2],
      confidence |-> RuleConfidence(x[1], x[2])] :
        x \in {y \in ((SUBSET FeatureProducts) \ {{}}) \X ((SUBSET FeatureProducts) \ {{}}) :
                 y[1] \cap y[2] = {}}}

RuleTables == {t \in SUBSET CandidateRules : Cardinality(t) <= MaxRules}

\* the rows of a rules table, itemsets in the order of the miner
RECURSIVE RuleRowsOf(_)
RuleRowsOf(t) ==
    IF t = {} THEN <<>>
    ELSE LET first == CHOOSE r \in t : \A x \in t :
                          \/ x = r
                          \/ ItemsetBefore(r.antecedents \cup r.consequents,
                                           x.antecedents \cup x.consequents)
                          \/ /\ r.antecedents \cup r.consequents
                                    = x.antecedents \cup x.consequents
                             /\ \/ ItemsetBefore(r.antecedents, x.antecedents)
                                \/ r.antecedents = x.antecedents
         IN <<first>> \o RuleRowsOf(t \ {first})

InitFeatures ==
    /\ data \in FeatureTables
    /\ \E t \in RuleTables : assoc = [NoAssocCall EXCEPT !.rules = RuleRowsOf(t)]
    /\ fc = NoForecastCall
    /\ transaction_data = {}
    /\ forecast_demand = {}
    /\ today = 0
    /\ inv = NoInventoryCall
    /\ session = NoSession

PrepareForecastFeatures ==
    /\ ~fc.called
    /\ fc' = [NoForecastCall EXCEPT
                 !.called = TRUE, !.op = "features",
                 !.features = prepare_forecast_features_rules(data, assoc.rules)]
    /\ UNCHANGED <<data, transaction_data, assoc, inventoryVars, session>>

NextFeatures == PrepareForecastFeatures

SpecFeatures == InitFeatures /\ [][NextFeatures]_vars

----------------------------------------------------------------------------
(* utils/inventory_optimization.py.  The historical table has the columns  *)
(* Date, ProductID, Quantity, and a Price column when its rows carry a     *)
(* Price cell.                                                             *)

\* ceil of a rational
CeilRat(a) == -((-a[1]) \div a[2])

RatAdd(a, b) == <<a[1] * b[2] + b[1] * a[2], a[2] * b[2]>>

\* service_factors.get(service_level, 1.645)
service_factor(service_level) ==
    IF RatEq(service_level, <<90, 100>>) THEN <<1282, 1000>>
    ELSE IF RatEq(service_level, <<95, 100>>) THEN <<1645, 1000>>
    ELSE IF RatEq(service_level, <<98, 100>>) THEN <<2054, 1000>>
    ELSE IF RatEq(service_level, <<99, 100>>) THEN <<2326, 1000>>
    ELSE <<1645, 1000>>

\* groupby('ProductID')['Quantity'].agg(mean, std): mean = sum / n; std is the
\* sample standard deviation (ddof=1), NaN for a single row, held as its
\* square (n*sum(x^2) - sum(x)^2) / (n*(n-1)).
demand_stats(historical_demand) ==
    {LET rows == {r \in historical_demand : r.ProductID = p}
         n == Cardinality(rows)
     IN [ProductID |-> p,
         mean |-> <<SumQuantity(rows), n>>,
         std |-> IF n < 2 THEN NaN
                 ELSE Cell(<<n * SumSquares(rows) - SumQuantity(rows) * SumQuantity(rows),
                             n * (n - 1)>>)] :
        p \in {r.ProductID : r \in historical_demand}}

\* the least integer s >= from with s*s >= q, for a rational q >= 0:
\* ceil(sqrt(q))
RECURSIVE CeilSqrtFrom(_, _)
CeilSqrtFrom(q, from) ==
    IF from * from * q[2] >= q[1] THEN from ELSE CeilSqrtFrom(q, from + 1)

\* np.ceil(std * service_factor * sqrt(lead_time_days)), or
\* np.ceil(mean * 0.2) where std == 0; a NaN cell when std is NaN
safety_stock_cell(st, z, lead_time_days) ==
    IF IsNull(st.std) THEN NaN
    ELSE LET var == CHOOSE v \in st.std : TRUE
         IN IF var[1] = 0
            THEN Cell(CeilRat(<<st.mean[1] * 2, st.mean[2] * 10>>))
            ELSE Cell(CeilSqrtFrom(<<var[1] * z[1] * z[1] * lead_time_days,
                                     var[2] * z[2] * z[2]>>, 0))

\* calculate_safety_stock: .astype(int) raises on a NaN safety stock
calculate_safety_stock(historical_demand, service_level, lead_time_days) ==
    LET z == service_factor(service_level)
        rows == {[ProductID |-> st.ProductID, mean |-> st.mean, std |-> st.std,
                  safety_stock |-> safety_stock_cell(st, z, lead_time_days)] :
                    st \in demand_stats(historical_demand)}
    IN IF \E r \in rows : IsNull(r.safety_stock)
       THEN [outcome |-> "ValueError", rows |-> {}]
       ELSE [outcome |-> "returned",
             rows |-> {[r EXCEPT !.safety_stock = CHOOSE v \in r.safety_stock : TRUE] :
                          r \in rows}]

RECURSIVE SumPredicted(_)
SumPredicted(rows) ==
    IF rows = {} THEN 0
    ELSE LET r == CHOOSE x \in rows : TRUE
         IN r.Predicted_Quantity + SumPredicted(rows \ {r})

\* the same with the day start + lead_time_days left out of the window
reorder_points_from_exclusive(start, historical_demand, forecast, lead_time_days, service_level) ==
    LET safety_stock_df ==
            calculate_safety_stock(historical_demand, service_level, lead_time_days)
        lead_time_end == start + lead_time_days
        lead_time_forecast ==
            {f \in forecast : f.Date >= start /\ f.Date < lead_time_end}
        lead_time_demand(r) ==
            LET mine == {f \in lead_time_forecast : f.ProductID = r.ProductID}
            IN IF mine = {}
               THEN <<r.mean[1] * lead_time_days, r.mean[2]>>
               ELSE <<SumPredicted(mine), 1>>
    IN IF safety_stock_df.outcome # "returned"
       THEN safety_stock_df
       ELSE [outcome |-> "returned",
             rows |-> {[ProductID |-> r.ProductID, mean |-> r.mean, std |-> r.std,
                        safety_stock |-> r.safety_stock,
                        lead_time_demand |-> lead_time_demand(r),
                        reorder_point |->
                            CeilRat(RatAdd(lead_time_demand(r), <<r.safety_stock, 1>>))] :
                          r \in safety_stock_df.rows}]

\* calculate_reorder_points with the lead-time window starting at day `start`
reorder_points_from(start, historical_demand, forecast, lead_time_days, service_level) ==
    LET safety_stock_df ==
            calculate_safety_stock(historical_demand, service_level, lead_time_days)
        lead_time_end == start + lead_time_days
        lead_time_forecast ==
            {f \in forecast : f.Date >= start /\ f.Date <= lead_time_end}
        lead_time_demand(r) ==
            LET mine == {f \in lead_time_forecast : f.ProductID = r.ProductID}
            IN IF mine = {}
               THEN <<r.mean[1] * lead_time_days, r.mean[2]>>
               ELSE <<SumPredicted(mine), 1>>
    IN IF safety_stock_df.outcome # "returned"
       THEN safety_stock_df
       ELSE [outcome |-> "returned",
             rows |-> {[ProductID |-> r.ProductID, mean |-> r.mean, std |-> r.std,
                        safety_stock |-> r.safety_stock,
                        lead_time_demand |-> lead_time_demand(r),
                        reorder_point |->
                            CeilRat(RatAdd(lead_time_demand(r), <<r.safety_stock, 1>>))] :
                          r \in safety_stock_df.rows}]

\* calculate_reorder_points: today = datetime.now().date() (line 77)
calculate_reorder_points(historical_demand, forecast, lead_time_days, service_level) ==
    reorder_points_from(today, historical_demand, forecast, lead_time_days, service_level)

\* 'Price' in historical_data.columns
HasPriceColumn(d) == d # {} /\ \A r \in d : "Price" \in DOMAIN r

\* groupby('ProductID')['Price'].mean(): the mean of the product's prices
\* that are not NaN, NaN when there is none
RECURSIVE SumPrice(_)
SumPrice(rows) ==
    IF rows = {} THEN 0
    ELSE LET r == CHOOSE x \in rows : TRUE
         IN (CHOOSE v \in r.Price : TRUE) + SumPrice(rows \ {r})

mean_price(d, p) ==
    LET priced == {r \in d : r.ProductID = p /\ ~IsNull(r.Price)}
    IN IF priced = {} THEN NaN ELSE Cell(<<SumPrice(priced), Cardinality(priced)>>)

\* np.ceil(np.sqrt(q)) for a rational q >= 0, by bisection: a power of two
\* whose square reaches q, then the least s below it with s*s >= q
RECURSIVE SqrtUpper(_, _)
SqrtUpper(q, hi) ==
    IF hi * hi * q[2] >= q[1] THEN hi ELSE SqrtUpper(q, 2 * hi)

RECURSIVE CeilSqrtBetween(_, _, _)
CeilSqrtBetween(q, lo, hi) ==
    IF lo >= hi THEN hi
    ELSE LET mid == (lo + hi) \div 2
         IN IF mid * mid * q[2] >= q[1]
            THEN CeilSqrtBetween(q, lo, mid)
            ELSE CeilSqrtBetween(q, mid + 1, hi)

CeilSqrt(q) == CeilSqrtBetween(q, 0, SqrtUpper(q, 1))

\* default parameters of calculate_economic_order_quantity: ordering_cost=25,
\* holding_cost_pct=0.25 as a rational
OrderingCost == 25
HoldingCostPct == <<1, 4>>

\* eoq = ceil(sqrt(2 * annual_demand * ordering_cost / holding_cost)) with
\* annual_demand = Quantity sum * 365 / days_in_data and holding_cost =
\* Price * holding_cost_pct; NaN or inf when the price is NaN or 0
eoq_cell(d, p, days_in_data) ==
    LET price == mean_price(d, p)
        total == SumQuantity({r \in d : r.ProductID = p})
    IN IF IsNull(price) THEN NaN
       ELSE LET pr == CHOOSE v \in price : TRUE
            IN IF pr[1] = 0 THEN NaN
               ELSE Cell(CeilSqrt(<<2 * total * 365 * OrderingCost
                                      * pr[2] * HoldingCostPct[2],
                                    days_in_data * pr[1] * HoldingCostPct[1]>>))

\* calculate_economic_order_quantity: an empty table when a required column
\* is missing (lines 125-129); .astype(int) at line 159 raises on an eoq that
\* is NaN or inf
calculate_economic_order_quantity(historical_demand) ==
    IF ~HasPriceColumn(historical_demand) THEN [outcome |-> "returned", rows |-> {}]
    ELSE LET dates == {r.Date : r \in historical_demand}
             span == (CHOOSE x \in dates : \A y \in dates : y <= x)
                        - (CHOOSE x \in dates : \A y \in dates : y >= x)
             days_in_data == IF span < 1 THEN 1 ELSE span
             rows == {[ProductID |-> p,
                       annual_demand |->
                           <<SumQuantity({r \in historical_demand : r.ProductID = p}) * 365,
                             days_in_data>>,
                       Price |-> mean_price(historical_demand, p),
                       eoq |-> eoq_cell(historical_demand, p, days_in_data)] :
                         p \in {r.ProductID : r \in historical_demand}}
         IN IF \E r \in rows : IsNull(r.eoq)
            THEN [outcome |-> "ValueError", rows |-> {}]
            ELSE [outcome |-> "returned",
                  rows |-> {[r EXCEPT !.eoq = CHOOSE v \in r.eoq : TRUE] : r \in rows}]

\* get_inventory_recommendations: the reorder points, left-merged with the
\* eoq table when there is a Price column and the table is not empty (lines
\* 192-208), a missing eoq filled with reorder_point * 2 (line 212),
\* days_of_supply = ceil(eoq / mean)
get_inventory_recommendations(historical_data, forecast, lead_time_days, service_level) ==
    LET reorder_points ==
            calculate_reorder_points(historical_data, forecast, lead_time_days, service_level)
        eoq_data == calculate_economic_order_quantity(historical_data)
        eoq(r) ==
            LET mine == {e \in eoq_data.rows : e.ProductID = r.ProductID}
                merged == IF mine = {} THEN NaN ELSE Cell((CHOOSE e \in mine : TRUE).eoq)
            IN CHOOSE v \in fillna(merged, r.reorder_point * 2) : TRUE
    IN IF reorder_points.outcome # "returned"
       THEN reorder_points
       ELSE IF eoq_data.outcome # "returned"
       THEN eoq_data
       ELSE [outcome |-> "returned",
             rows |-> {[ProductID |-> r.ProductID,
                        avg_daily_demand |-> r.mean,
                        demand_std_dev |-> r.std,
                        safety_stock |-> r.safety_stock,
                        lead_time_demand |-> r.lead_time_demand,
                        reorder_point |-> r.reorder_point,
                        eoq |-> eoq(r),
                        days_of_supply |->
                            CeilRat(<<eoq(r) * r.mean[2], r.mean[1]>>)] :
                          r \in reorder_points.rows}]

\* round(x) of a rational with positive denominator: to the nearest
\* integer, a half to the even one
RoundHalfEven(a) ==
    LET f == a[1] \div a[2]
        twice == 2 * (a[1] - f * a[2])
    IN IF twice < a[2] THEN f
       ELSE IF twice > a[2] THEN f + 1
       ELSE IF f % 2 = 0 THEN f ELSE f + 1

RatMul(a, b) == <<a[1] * b[1], a[2] * b[2]>>

RECURSIVE SumSafetyStock(_)
SumSafetyStock(rows) ==
    IF rows = {} THEN 0
    ELSE LET r == CHOOSE x \in rows : TRUE
         IN r.safety_stock + SumSafetyStock(rows \ {r})

RECURSIVE SumReorderPoint(_)
SumReorderPoint(rows) ==
    IF rows = {} THEN 0
    ELSE LET r == CHOOSE x \in rows : TRUE
         IN r.reorder_point + SumReorderPoint(rows \ {r})

\* the dict built at lines 271-283 from the members' recommendations
bundle_rec(bundle, individual_recs) ==
    LET n == Cardinality(individual_recs)
        mean_reorder_point == <<SumReorderPoint(individual_recs), n>>
    IN [bundle_id |-> bundle.bundle_items,
        confidence |-> bundle.confidence,
        lift |-> bundle.lift,
        avg_safety_stock |-> RoundHalfEven(<<SumSafetyStock(individual_recs), n>>),
        avg_reorder_point |-> RoundHalfEven(mean_reorder_point),
        min_days_supply |->
            CHOOSE m \in {r.days_of_supply : r \in individual_recs} :
                \A r \in individual_recs : m <= r.days_of_supply,
        suggested_bundle_stock |->
            RoundHalfEven(RatMul(RatMul(mean_reorder_point, bundle.confidence),
                                 RatAdd(<<1, 1>>,
                                        RatMul(<<1, 10>>,
                                               RatAdd(bundle.lift, <<-1, 1>>)))))]

\* the loop of lines 253-284 from bundle i on: a bundle of fewer than 2 items
\* is skipped, one whose members have no row in the tables gives no row, and
\* an exception of get_inventory_recommendations ends the call
RECURSIVE bundle_loop(_, _, _, _, _, _)
bundle_loop(historical_data, forecast, product_bundles, lead_time_days, service_level, i) ==
    IF i > Len(product_bundles) THEN [outcome |-> "returned", rows |-> <<>>]
    ELSE LET bundle == product_bundles[i]
             product_ids == SeqRange(bundle.bundle_items)
             individual_recs ==
                 get_inventory_recommendations(
                     {r \in historical_data : r.ProductID \in product_ids},
                     {f \in forecast : f.ProductID \in product_ids},
                     lead_time_days, service_level)
             rest == bundle_loop(historical_data, forecast, product_bundles,
                                 lead_time_days, service_level, i + 1)
         IN IF Len(bundle.bundle_items) < 2 THEN rest
            ELSE IF individual_recs.outcome # "returned"
            THEN [outcome |-> individual_recs.outcome, rows |-> <<>>]
            ELSE IF rest.outcome # "returned" THEN rest
            ELSE IF individual_recs.rows = {} THEN rest
            ELSE [outcome |-> "returned",
                  rows |-> <<bundle_rec(bundle, individual_recs.rows)>> \o rest.rows]

get_bundle_inventory_recommendations(historical_data, forecast, product_bundles, lead_time_days, service_level) ==
    bundle_loop(historical_data, forecast, product_bundles, lead_time_days,
                service_level, 1)

----------------------------------------------------------------------------
(* Inventory as a state machine: tables, a clock, and calls *)

\* Last day the clock reaches.
MaxToday == 2
\* Largest number of rows of the historical table, and of the forecast table.
MaxHistoryRows == 2
MaxForecastRows == 1

ForecastDates == {1, 2}
PredictedQuantities == {0, 3}
LeadTimes == {1, 2}
ServiceLevels == {<<95, 100>>, <<99, 100>>}

HistoryTables == {d \in SUBSET SalesRows : Cardinality(d) <= MaxHistoryRows}

\* forecast tables: at most one row per (Date, ProductID)
ForecastRows ==
    [Date : ForecastDates, ProductID : HistoryProducts,
     Predicted_Quantity : PredictedQuantities]
ForecastTables ==
    {f \in SUBSET ForecastRows :
        /\ Cardinality(f) <= MaxForecastRows
        /\ \A x \in f : \A y \in f :
              (x.Date = y.Date /\ x.ProductID = y.ProductID) => x = y}

InitInventory ==
    /\ data \in HistoryTables
    /\ forecast_demand \in ForecastTables
    /\ today = 0
    /\ inv = NoInventoryCall
    /\ session = NoSession
    /\ fc = NoForecastCall
    /\ transaction_data = {}
    /\ assoc = NoAssocCall

\* a day passes
Tick ==
    /\ today < MaxToday
    /\ today' = today + 1
    /\ UNCHANGED <<data, forecast_demand, inv, fc, assocVars, session>>

CallRecord(op, lead_time_days, service_level, out) ==
    [called |-> TRUE, op |-> op, product_bundles |-> <<>>,
     lead_time_days |-> lead_time_days,
     service_level |-> service_level, day |-> today,
     outcome |-> out.outcome, rows |-> out.rows]

CalculateReorderPoints(lead_time_days, service_level) ==
    /\ inv' = CallRecord("calculate_reorder_points", lead_time_days, service_level,
                         calculate_reorder_points(data, forecast_demand,
                                                  lead_time_days, service_level))
    /\ UNCHANGED <<data, forecast_demand, today, fc, assocVars, session>>

GetInventoryRecommendations(lead_time_days, service_level) ==
    /\ inv' = CallRecord("get_inventory_recommendations", lead_time_days, service_level,
                         get_inventory_recommendations(data, forecast_demand,
                                                       lead_time_days, service_level))
    /\ UNCHANGED <<data, forecast_demand, today, fc, assocVars, session>>

NextInventory ==
    \/ Tick
    \/ \E lead_time_days \in LeadTimes, service_level \in ServiceLevels :
          CalculateReorderPoints(lead_time_days, service_level)
    \/ \E lead_time_days \in LeadTimes, service_level \in ServiceLevels :
          GetInventoryRecommendations(lead_time_days, service_level)

SpecInventory == InitInventory /\ [][NextInventory]_vars

----------------------------------------------------------------------------
(* Safety stock as a state machine: the session's transaction lines, and   *)
(* one call of calculate_safety_stock on them, as the Inventory            *)
(* Optimization page makes it through get_inventory_recommendations        *)

InitSafetyStock ==
    /\ data \in SalesTables
    /\ forecast_demand = {}
    /\ today = 0
    /\ inv = NoInventoryCall
    /\ session = NoSession
    /\ fc = NoForecastCall
    /\ transaction_data = {}
    /\ assoc = NoAssocCall

\* service levels tried on calculate_safety_stock: the four of the table, and
\* 0.97, which is not in it
SafetyStockServiceLevels ==
    {<<90, 100>>, <<95, 100>>, <<97, 100>>, <<98, 100>>, <<99, 100>>}

CalculateSafetyStock ==
    /\ ~inv.called
    /\ \E lead_time_days \in LeadTimes, service_level \in SafetyStockServiceLevels :
          inv' = CallRecord("calculate_safety_stock", lead_time_days, service_level,
                            calculate_safety_stock(data, service_level, lead_time_days))
    /\ UNCHANGED <<data, forecast_demand, today, fc, assocVars, session>>

NextSafetyStock == CalculateSafetyStock

SpecSafetyStock == InitSafetyStock /\ [][NextSafetyStock]_vars

----------------------------------------------------------------------------
(* Economic order quantity as a state machine: a historical table with or  *)
(* without Price column, and one call on it                                *)

\* prices of a line: missing, or 4
Prices == {NaN, Cell(4)}

\* tables with a Price column, at most one line per date and product
PricedTables ==
    {{[Date |-> k[1], ProductID |-> k[2], Quantity |-> f[k][1], Price |-> f[k][2]] :
         k \in {x \in DOMAIN f : f[x] # <<0, NaN>>}} :
       f \in [Dates \X HistoryProducts -> {<<0, NaN>>} \cup (Quantities \X Prices)]}

\* the same tables without the Price column
UnpricedTables ==
    {{[Date |-> r.Date, ProductID |-> r.ProductID, Quantity |-> r.Quantity] : r \in d} :
        d \in PricedTables}

InitEOQ ==
    /\ data \in PricedTables \cup UnpricedTables
    /\ forecast_demand = {}
    /\ today = 0
    /\ inv = NoInventoryCall
    /\ session = NoSession
    /\ fc = NoForecastCall
    /\ transaction_data = {}
    /\ assoc = NoAssocCall

CalculateEconomicOrderQuantity ==
    /\ ~inv.called
    /\ inv' = CallRecord("calculate_economic_order_quantity", 0, <<0, 1>>,
                         calculate_economic_order_quantity(data))
    /\ UNCHANGED <<data, forecast_demand, today, fc, assocVars, session>>

RecommendWithPrices ==
    /\ ~inv.called
    /\ \E lead_time_days \in LeadTimes, service_level \in ServiceLevels :
          inv' = CallRecord("get_inventory_recommendations", lead_time_days,
                            service_level,
                            get_inventory_recommendations(data, forecast_demand,
                                                          lead_time_days, service_level))
    /\ UNCHANGED <<data, forecast_demand, today, fc, assocVars, session>>

NextEOQ ==
    \/ CalculateEconomicOrderQuantity
    \/ RecommendWithPrices

SpecEOQ == InitEOQ /\ [][NextEOQ]_vars

----------------------------------------------------------------------------
(* Bundle recommendations as a state machine: a historical table, a list  *)
(* of bundles, and one call on them                                       *)

\* Largest number of bundles in a call.
MaxBundles == 2

\* bundles (bundle_items, confidence, lift): of one item, of two items with
\* history, and of an item paired with one that has no row in the tables
CandidateBundles ==
    {[bundle_items |-> <<"A">>, confidence |-> <<1, 1>>, lift |-> <<1, 1>>],
     [bundle_items |-> <<"A", "B">>, confidence |-> <<1, 1>>, lift |-> <<1, 1>>],
     [bundle_items |-> <<"A", "B">>, confidence |-> <<1, 2>>, lift |-> <<2, 1>>],
     [bundle_items |-> <<"B", "C">>, confidence |-> <<3, 5>>, lift |-> <<3, 2>>]}

BundleLists == UNION {[1..n -> CandidateBundles] : n \in 0..MaxBundles}

InitBundles ==
    /\ data \in UnpricedTables
    /\ forecast_demand = {}
    /\ today = 0
    /\ inv = NoInventoryCall
    /\ session = NoSession
    /\ fc = NoForecastCall
    /\ transaction_data = {}
    /\ assoc = NoAssocCall

GetBundleInventoryRecommendations ==
    /\ ~inv.called
    /\ \E product_bundles \in BundleLists, lead_time_days \in LeadTimes,
          service_level \in ServiceLevels :
          inv' = [CallRecord("get_bundle_inventory_recommendations", lead_time_days,
                             service_level,
                             get_bundle_inventory_recommendations(
                                 data, forecast_demand, product_bundles,
                                 lead_time_days, service_level))
                    EXCEPT !.product_bundles = product_bundles]
    /\ UNCHANGED <<data, forecast_demand, today, fc, assocVars, session>>

NextBundles == GetBundleInventoryRecommendations

SpecBundles == InitBundles /\ [][NextBundles]_vars

----------------------------------------------------------------------------
(* Association mining as a state machine: an input table, and calls *)

\* Input tables: up to MaxTx transactions, each a non-empty basket of
\* Products.  TransactionIDs are opaque and only group the rows, so the
\* baskets are numbered in the order of ItemsetBefore.
BasketLists ==
    UNION {{b \in [1..n -> (SUBSET Products) \ {{}}] :
              \A i \in 1..n : \A j \in 1..n :
                 i < j => (b[i] = b[j] \/ ItemsetBefore(b[i], b[j]))} : n \in 0..MaxTx}

RowsOf(b) ==
    {[TransactionID |-> t, ProductID |-> p] : <<t, p>> \in
        {x \in (DOMAIN b) \X Products : x[2] \in b[x[1]]}}

InitAssoc ==
    /\ transaction_data \in {RowsOf(b) : b \in BasketLists}
    /\ assoc = NoAssocCall
    /\ data = {}
    /\ fc = NoForecastCall
    /\ forecast_demand = {}
    /\ today = 0
    /\ inv = NoInventoryCall
    /\ session = NoSession

RunAssociationAnalysis(min_support, min_confidence, min_lift) ==
    LET out == perform_association_analysis(transaction_data, min_support,
                                            min_confidence, min_lift)
    IN /\ ~assoc.called
       /\ assoc' = [NoAssocCall EXCEPT
                       !.called = TRUE, !.min_support = min_support,
                       !.min_confidence = min_confidence, !.min_lift = min_lift,
                       !.path = out.path, !.raised = out.raised,
                       !.frequent_itemsets = out.frequent_itemsets,
                       !.rules = out.rules]
       /\ UNCHANGED <<transaction_data, forecastVars, inventoryVars, session>>

NextAssoc ==
    \E min_support \in MinSupports, min_confidence \in MinConfidences,
       min_lift \in MinLifts :
        RunAssociationAnalysis(min_support, min_confidence, min_lift)

SpecAssoc == InitAssoc /\ [][NextAssoc]_vars

\* One call of create_transaction_matrix on the input table.
CreateTransactionMatrix ==
    /\ ~assoc.called
    /\ assoc' = [NoAssocCall EXCEPT
                    !.called = TRUE, !.path = "matrix",
                    !.transaction_matrix = create_transaction_matrix(transaction_data)]
    /\ UNCHANGED <<transaction_data, forecastVars, inventoryVars, session>>

NextMatrix == CreateTransactionMatrix

SpecMatrix == InitAssoc /\ [][NextMatrix]_vars

----------------------------------------------------------------------------
(* utils/data_processing.py: load_and_preprocess_data and validate_data.   *)
(* A dataset is [columns, rows]; a row carries its line number, so that    *)
(* equal lines stay apart.                                                 *)

RequiredColumns == {"Date", "ProductID", "Quantity"}

\* thresholds of validate_data
MinRecords == 10
MinProducts == 2
MinTransactions == 5
MinDateRange == 7

\* load_and_preprocess_data on a file with a TransactionID column: raises
\* ValueError when a required column is missing (lines 33-36); a Quantity
\* that does not parse becomes NaN (line 54) and its line is dropped (line 57)
load_and_preprocess_data(file) ==
    IF ~(RequiredColumns \subseteq file.columns)
    THEN [raised |-> TRUE, columns |-> {}, rows |-> {}]
    ELSE [raised |-> FALSE,
          columns |-> file.columns,
          rows |-> {[line |-> r.line, TransactionID |-> r.TransactionID,
                     ProductID |-> r.ProductID, Date |-> r.Date,
                     Quantity |-> r.Quantity] : r \in {x \in file.rows : x.parses}}]

\* accepts every dataset
validate_data_lenient(d) ==
    [is_valid |-> TRUE, message |-> "Data validation successful."]

\* validate_data, on a loaded dataset: its Date column is datetime and its
\* Quantity column numeric (lines 39 and 54), so the dtype checks of lines
\* 144-148 pass
validate_data(d) ==
    LET dates == {r.Date : r \in d.rows}
        date_range == (CHOOSE x \in dates : \A y \in dates : y <= x)
                         - (CHOOSE x \in dates : \A y \in dates : y >= x)
    IN IF ~(RequiredColumns \subseteq d.columns)
       THEN [is_valid |-> FALSE, message |-> "Required column is missing from the data."]
       ELSE IF Cardinality(d.rows) < MinRecords
       THEN [is_valid |-> FALSE, message |-> "Data has fewer than 10 records."]
       ELSE IF Cardinality({r.ProductID : r \in d.rows}) < MinProducts
       THEN [is_valid |-> FALSE, message |-> "Data needs at least 2 unique products."]
       ELSE IF Cardinality({r.TransactionID : r \in d.rows}) < MinTransactions
       THEN [is_valid |-> FALSE, message |-> "Data needs at least 5 unique transactions."]
       ELSE IF date_range < MinDateRange
       THEN [is_valid |-> FALSE, message |-> "Data spans less than 7 days."]
       ELSE IF \E r \in d.rows : r.Quantity <= 0
       THEN [is_valid |-> TRUE,
             message |-> "Warning: Some quantity values are negative or zero."]
       ELSE [is_valid |-> TRUE, message |-> "Data validation successful."]

----------------------------------------------------------------------------
(* src/app.py: the pages as a state machine over st.session_state *)

\* Files a user may upload: n lines over p products and t transactions,
\* spread over span days, all of quantity 1 but the first line, whose
\* quantity is q and may fail to parse as a number; with or without the
\* Quantity column.
FileRecordCounts == {9, 10, 11}
FileProductCounts == {1, 2}
FileTransactionCounts == {4, 5}
FileDateSpans == {6, 7}
FirstQuantities == {-1, 0, 1}
FileColumnSets ==
    {{"Date", "ProductID", "Quantity", "TransactionID"},
     {"Date", "ProductID", "TransactionID"}}

FileRows(n, p, t, span, q, parses) ==
    {[line |-> i,
      TransactionID |-> ((i - 1) % t) + 1,
      ProductID |-> IF p = 1 \/ i % 2 = 1 THEN "A" ELSE "B",
      Date |-> 1 + ((i - 1) * span) \div (n - 1),
      Quantity |-> IF i = 1 THEN q ELSE 1,
      parses |-> (i # 1 \/ parses)] : i \in 1..n}

UploadFiles ==
    {[columns |-> c, rows |-> FileRows(x[1], x[2], x[3], x[4], x[5], x[6])] :
        c \in FileColumnSets,
        x \in FileRecordCounts \X FileProductCounts \X FileTransactionCounts
                \X FileDateSpans \X FirstQuantities \X BOOLEAN}

\* thresholds the sliders of the Association Analysis page are set to
PageMinSupports == {<<1, 100>>, <<1, 2>>}
PageMinConfidences == {<<1, 2>>, <<1, 1>>}

\* lines 737-738: data.groupby(['TransactionID', 'ProductID'])['Quantity']
\* .sum(), and of these the rows with Quantity > 0
GroupedTransactionData(d) ==
    {g \in {[TransactionID |-> k[1], ProductID |-> k[2],
             Quantity |-> SumQuantity({r \in d.rows : r.TransactionID = k[1]
                                                        /\ r.ProductID = k[2]})] :
               k \in {<<r.TransactionID, r.ProductID>> : r \in d.rows}} :
        g.Quantity > 0}

\* src/utils/authentication.py lines 118-139
is_authenticated(s) == s.user # {}

login_user(s, user) == [s EXCEPT !.user = Cell(user)]

logout_user(s) ==
    [s EXCEPT !.user = {},
              !.data = {}, !.preprocessed_data = {}, !.transaction_data = {},
              !.product_list = {}, !.association_rules = {},
              !.forecasting_model = {}, !.predictions = {},
              !.frequent_itemsets = {}]

\* the stores of a successful upload without lines 748-752
store_upload_keep_results(s, d) ==
    [s EXCEPT !.data = Cell(d),
              !.preprocessed_data = Cell(d),
              !.transaction_data = Cell(GroupedTransactionData(d)),
              !.product_list = Cell({r.ProductID : r \in d.rows})]

\* lines 713 and 744-752: what a successful upload stores and clears
store_upload(s, d) ==
    [s EXCEPT !.data = Cell(d),
              !.preprocessed_data = Cell(d),
              !.transaction_data = Cell(GroupedTransactionData(d)),
              !.product_list = Cell({r.ProductID : r \in d.rows}),
              !.association_rules = {},
              !.forecasting_model = {},
              !.predictions = {},
              !.frequent_itemsets = {}]

\* accounts that may sign in
Users == {"u1", "u2"}

InitApp ==
    /\ session = NoSession
    /\ transaction_data = {}
    /\ assoc = NoAssocCall
    /\ data = {}
    /\ fc = NoForecastCall
    /\ forecast_demand = {}
    /\ today = 0
    /\ inv = NoInventoryCall

\* Data Upload page, lines 700-758, for one uploaded file
DataUploadPage ==
    /\ is_authenticated(session)
    /\ \E file \in UploadFiles :
          LET loaded == load_and_preprocess_data(file)
              d == [columns |-> loaded.columns, rows |-> loaded.rows]
              validated == validate_data(d)
          IN IF loaded.raised
             THEN session' = [session EXCEPT !.message = "Error processing file",
                                             !.event = "upload failed"]
             ELSE IF validated.is_valid
             THEN session' = [store_upload(session, d) EXCEPT
                                 !.message = validated.message,
                                 !.event = "upload stored"]
             ELSE session' = [session EXCEPT !.message = validated.message,
                                             !.event = "upload refused"]
    /\ UNCHANGED <<assocVars, forecastVars, inventoryVars>>

\* Association Analysis page, lines 763-818: the button runs the analysis on
\* the session's transaction data with the default min_lift and stores what
\* it returns
AssociationAnalysisPage ==
    /\ is_authenticated(session)
    /\ session.preprocessed_data # {}
    /\ \E min_support \in PageMinSupports, min_confidence \in PageMinConfidences :
          LET td == CHOOSE x \in session.transaction_data : TRUE
              out == perform_association_analysis(td, min_support, min_confidence, <<1, 1>>)
              called == [session EXCEPT
                            !.event = "association analysis",
                            !.reached = [fn |-> "perform_association_analysis",
                                         lines |-> td,
                                         dataset |-> session.preprocessed_data]]
          IN IF out.raised THEN session' = called
             ELSE session' = [called EXCEPT
                                 !.frequent_itemsets = Cell(out.frequent_itemsets),
                                 !.association_rules = Cell(out.rules)]
    /\ UNCHANGED <<assocVars, forecastVars, inventoryVars>>

\* Demand Forecasting page, lines 1058-1143: the button trains on the
\* session's preprocessed data and, if a model comes back, predicts and
\* stores model and predictions.  The rules the page may pass only add the
\* column AssociatedProductSales, which holds no NaN, so the rows and the
\* outcome of the training call are those of the call without rules.
DemandForecastingPage ==
    /\ is_authenticated(session)
    /\ session.preprocessed_data # {}
    /\ \E selected \in (SUBSET (CHOOSE x \in session.product_list : TRUE)) \ {{}},
          train_ratio \in TrainRatios, horizon \in 1..MaxHorizon :
          LET d == CHOOSE x \in session.preprocessed_data : TRUE
              products_to_forecast == get_dummies_ProductID(selected)
              model == train_forecasting_model(d.rows, products_to_forecast, train_ratio)
              called == [session EXCEPT
                            !.event = "forecasting",
                            !.reached = [fn |-> "train_forecasting_model",
                                         lines |-> d.rows,
                                         dataset |-> session.preprocessed_data]]
          IN IF model.outcome # "returned" THEN session' = called
             ELSE \E model_outputs \in [DOMAIN products_to_forecast ->
                                          [1..horizon -> ModelOutputs]] :
                     session' = [called EXCEPT
                                    !.forecasting_model = Cell(model),
                                    !.predictions =
                                        Cell(predict_demand(model_outputs, d.rows,
                                                            products_to_forecast,
                                                            horizon).rows)]
    /\ UNCHANGED <<assocVars, forecastVars, inventoryVars>>

\* Login page, lines 544-553: a successful sign-in stores the user; the
\* pages above are offered to a signed-in user only (lines 337-349)
LoginPage ==
    /\ ~is_authenticated(session)
    /\ \E user \in Users :
          session' = [login_user(session, user) EXCEPT !.event = "sign in"]
    /\ UNCHANGED <<assocVars, forecastVars, inventoryVars>>

\* the Sign Out button of the sidebar, lines 324-326
SignOut ==
    /\ is_authenticated(session)
    /\ session' = [logout_user(session) EXCEPT !.event = "sign out"]
    /\ UNCHANGED <<assocVars, forecastVars, inventoryVars>>

\* The Inventory Optimization page calls get_inventory_recommendations only
\* when session.predictions is set (lines 857-860), which the forecasting
\* page does only after train_forecasting_model returned.
NextApp ==
    \/ LoginPage
    \/ SignOut
    \/ DataUploadPage
    \/ AssociationAnalysisPage
    \/ DemandForecastingPage

SpecApp == InitApp /\ [][NextApp]_vars

----------------------------------------------------------------------------
(* Reference notions on the input of the recorded call, from the data     *)
(* model of the specification                                              *)

InputTids == {r.TransactionID : r \in transaction_data}
InputProducts == {r.ProductID : r \in transaction_data}
InputBasket(t) == {r.ProductID : r \in {x \in transaction_data : x.TransactionID = t}}
NumBaskets == Cardinality(InputTids)

\* number of input baskets containing all items of S
BasketCount(S) == Cardinality({t \in InputTids : S \subseteq InputBasket(t)})

\* itemsets of at most 4 input products whose support reaches the threshold
InputFrequent(min_support) ==
    {S \in (SUBSET InputProducts) \ {{}} :
        /\ Cardinality(S) <= AprioriMaxLen
        /\ RatGeq(<<BasketCount(S), NumBaskets>>, min_support)}

\* splits (antecedent, consequent) of a frequent itemset that pass both thresholds
InputPassingRules(min_support, min_confidence, min_lift) ==
    {x \in InputFrequent(min_support) \X InputFrequent(min_support) :
        /\ x[1] \cap x[2] = {}
        /\ (x[1] \cup x[2]) \in InputFrequent(min_support)
        /\ RatGeq(<<BasketCount(x[1] \cup x[2]), BasketCount(x[1])>>, min_confidence)
        /\ RatGeq(<<BasketCount(x[1] \cup x[2]) * NumBaskets,
                    BasketCount(x[1]) * BasketCount(x[2])>>, min_lift)}

OutputProducts ==
    UNION ({assoc.frequent_itemsets[i].itemsets : i \in DOMAIN assoc.frequent_itemsets}
           \cup {assoc.rules[i].antecedents : i \in DOMAIN assoc.rules}
           \cup {assoc.rules[i].consequents : i \in DOMAIN assoc.rules})

Returned == assoc.called /\ ~assoc.raised

----------------------------------------------------------------------------
(* Claims on association mining, checked under SpecAssoc *)

\* C1: perform_association_analysis does not raise; when the input has no
\* transactions or no itemset reaches min_support both returned tables are
\* empty, when no rule passes min_confidence and min_lift the rule table is
\* empty, and every product named in the output occurs in the input.
C1_HonestEmptyResults ==
    assoc.called =>
        /\ ~assoc.raised
        /\ (InputFrequent(assoc.min_support) = {}
              => assoc.frequent_itemsets = <<>> /\ assoc.rules = <<>>)
        /\ (InputPassingRules(assoc.min_support, assoc.min_confidence, assoc.min_lift) = {}
              => assoc.rules = <<>>)
        /\ OutputProducts \subseteq InputProducts

\* C2: every returned itemset reports the support
\* (input baskets containing all its items) / (input baskets), which is at
\* least min_support.
C2_SupportIsInputFrequency ==
    Returned =>
        \A i \in DOMAIN assoc.frequent_itemsets :
            LET row == assoc.frequent_itemsets[i]
            IN /\ NumBaskets > 0
               /\ RatEq(row.support, <<BasketCount(row.itemsets), NumBaskets>>)
               /\ RatGeq(row.support, assoc.min_support)

\* C3: every non-empty subset of a returned itemset is a returned itemset
\* too, with a support at least that of the superset.
C3_DownwardClosed ==
    Returned =>
        \A i \in DOMAIN assoc.frequent_itemsets :
            \A T \in (SUBSET assoc.frequent_itemsets[i].itemsets) \ {{}} :
                \E j \in DOMAIN assoc.frequent_itemsets :
                    /\ assoc.frequent_itemsets[j].itemsets = T
                    /\ RatGeq(assoc.frequent_itemsets[j].support,
                              assoc.frequent_itemsets[i].support)

\* a mined table with an itemset of two or more items whose support is
\* strictly below that of one of its subsets
C3_Witness ==
    /\ Returned
    /\ assoc.path = "mined"
    /\ \E i \in DOMAIN assoc.frequent_itemsets :
         \E j \in DOMAIN assoc.frequent_itemsets :
            /\ Cardinality(assoc.frequent_itemsets[i].itemsets) >= 2
            /\ assoc.frequent_itemsets[j].itemsets \subseteq assoc.frequent_itemsets[i].itemsets
            /\ ~RatGeq(assoc.frequent_itemsets[i].support, assoc.frequent_itemsets[j].support)

\* C4: every returned rule has a non-empty antecedent and a non-empty
\* consequent, disjoint, confidence = support(antecedent + consequent) /
\* support(antecedent) within [0,1], and lift = confidence /
\* support(consequent), the supports being those of the input baskets.
C4_RuleMetricsOnInput ==
    Returned =>
        \A i \in DOMAIN assoc.rules :
            LET r == assoc.rules[i]
                cA == BasketCount(r.antecedents)
                cC == BasketCount(r.consequents)
                cAC == BasketCount(r.antecedents \cup r.consequents)
            IN /\ r.antecedents # {} /\ r.consequents # {}
               /\ r.antecedents \cap r.consequents = {}
               /\ cA > 0 /\ cC > 0
               /\ RatEq(r.confidence, <<cAC, cA>>)
               /\ RatGeq(r.confidence, <<0, 1>>) /\ RatGeq(<<1, 1>>, r.confidence)
               /\ RatEq(r.lift, <<cAC * NumBaskets, cA * cC>>)

\* C5: every returned rule has confidence >= min_confidence and
\* lift >= min_lift, whatever thresholds the caller passed.
C5_RulesMeetThresholds ==
    Returned =>
        \A i \in DOMAIN assoc.rules :
            /\ RatGeq(assoc.rules[i].confidence, assoc.min_confidence)
            /\ RatGeq(assoc.rules[i].lift, assoc.min_lift)

\* C6: on every return path the rule table is ordered by lift descending:
\* each row's lift is at least the next row's.
C6_SortedByLift ==
    Returned =>
        \A i \in DOMAIN assoc.rules :
            i < Len(assoc.rules) => RatGeq(assoc.rules[i].lift, assoc.rules[i + 1].lift)

\* a mined rule table in which the lift strictly drops somewhere
C6_Witness ==
    /\ Returned
    /\ assoc.path = "mined"
    /\ \E i \in DOMAIN assoc.rules :
          /\ i < Len(assoc.rules)
          /\ ~RatGeq(assoc.rules[i + 1].lift, assoc.rules[i].lift)

----------------------------------------------------------------------------
(* Claims on forecasting, checked under SpecForecast *)

\* (Date, ProductID) pairs of the sales table whose product is requested:
\* the rows left after aggregation and restriction to the request
RequestedDailyPairs ==
    {<<r.Date, r.ProductID>> : r \in
        {x \in data : x.ProductID \in SeqRange(fc.products_to_forecast)}}

\* C7: train_forecasting_model raises the data-insufficiency ValueError, and
\* returns no model, when zero rows remain after feature construction,
\* restriction to the requested products and null-dropping.
C7_RaisesOnNoRows ==
    (fc.op = "train" /\ (UsableRows(data, fc.products_to_forecast) = {}
                          \/ RequestedDailyPairs = {}))
        => fc.outcome = "ValueError" /\ fc.feature_names_in_ = <<>>

\* a training call on a non-empty sales table none of whose products is
\* requested
C7_Witness ==
    /\ fc.op = "train"
    /\ data # {}
    /\ fc.products_to_forecast # <<>>
    /\ RequestedDailyPairs = {}
    /\ fc.outcome = "ValueError"

\* number of entries of the request that name product p
Occurrences(p) ==
    Cardinality({i \in DOMAIN fc.products_to_forecast : fc.products_to_forecast[i] = p})

ForecastRowsOf(p) == {i \in DOMAIN fc.rows : fc.rows[i].ProductID = p}

HasHistory(p) == \E r \in data : r.ProductID = p

\* C8: predict_demand does not raise for a requested product without rows in
\* the historical data: that product gets no forecast rows, every requested
\* product with history still gets its horizon rows, and with no such product
\* the result is the empty table with columns Date, ProductID,
\* Predicted_Quantity.
C8_MissingHistorySkipped ==
    fc.op = "predict" =>
        /\ fc.outcome = "returned"
        /\ fc.columns = <<"Date", "ProductID", "Predicted_Quantity">>
        /\ \A p \in RequestProducts :
              Cardinality(ForecastRowsOf(p)) =
                  IF HasHistory(p) THEN fc.horizon * Occurrences(p) ELSE 0
        /\ ((\A i \in DOMAIN fc.products_to_forecast :
                ~HasHistory(fc.products_to_forecast[i])) => fc.rows = <<>>)

\* a prediction for a request naming a product without history and one with
C8_Witness ==
    /\ fc.op = "predict"
    /\ fc.outcome = "returned"
    /\ \E i \in DOMAIN fc.products_to_forecast :
          \E j \in DOMAIN fc.products_to_forecast :
             /\ ~HasHistory(fc.products_to_forecast[i])
             /\ HasHistory(fc.products_to_forecast[j])
             /\ ForecastRowsOf(fc.products_to_forecast[i]) = {}
             /\ ForecastRowsOf(fc.products_to_forecast[j]) # {}

\* C9: every Predicted_Quantity returned by predict_demand is >= 0, whatever
\* the model outputs.
C9_PredictionsNonNegative ==
    fc.op = "predict" =>
        \A i \in DOMAIN fc.rows : fc.rows[i].Predicted_Quantity >= 0

\* a returned row for which the model's output was negative
C9_Witness ==
    /\ fc.op = "predict"
    /\ \E i \in DOMAIN fc.rows :
          fc.rows[i].model_output < 0 /\ fc.rows[i].Predicted_Quantity = 0

----------------------------------------------------------------------------
(* Claims on determinism, checked under SpecInventory *)

\* C10: two invocations of a core function with identical arguments return
\* identical results, whenever they run; in particular the results of
\* calculate_reorder_points and get_inventory_recommendations depend only on
\* their inputs and parameters: a call that repeats the operation and the
\* arguments of the call before it, on the same tables, returns what that
\* call returned.
C10_Deterministic ==
    [][(/\ inv.called /\ inv'.called
        /\ inv'.op = inv.op
        /\ inv'.lead_time_days = inv.lead_time_days
        /\ inv'.service_level = inv.service_level)
          => (inv'.outcome = inv.outcome /\ inv'.rows = inv.rows)]_vars

----------------------------------------------------------------------------
(* Claims on the training split, checked under SpecForecast *)

\* C11: when train_forecasting_model is called and n >= 1 usable rows remain,
\* the training subset is the first floor(n * train_ratio) rows in ascending
\* Date order, the rest is held out, and the latest Date of the training
\* subset is no later than the earliest Date of the held-out subset.
C11_ChronologicalSplit ==
    (fc.op = "train" /\ fc.usable_rows > 0) =>
        /\ fc.outcome = "returned"
        /\ Len(fc.train_data) =
              (fc.usable_rows * fc.train_ratio[1]) \div fc.train_ratio[2]
        /\ Len(fc.train_data) + Len(fc.held_out) = fc.usable_rows
        /\ \A i \in DOMAIN fc.train_data : \A j \in DOMAIN fc.held_out :
              fc.train_data[i].Date <= fc.held_out[j].Date

\* C20: when train_forecasting_model is called and at least one usable row
\* remains for the requested products, it returns a model, and the ProductID
\* indicator columns of the model's feature list are one for each requested
\* product, no more and no fewer.
C20_ReturnsModelWithRequestedIndicators ==
    (fc.op = "train" /\ fc.usable_rows > 0) =>
        /\ fc.outcome = "returned"
        /\ Len(fc.indicator_columns) = Len(fc.products_to_forecast)
        /\ SeqRange(fc.indicator_columns) = SeqRange(fc.products_to_forecast)

----------------------------------------------------------------------------
(* Claims on the inventory optimizer, checked under SpecInventory *)

\* C12: the reorder_point and the eoq returned by the inventory optimizer
\* are non-negative, and a call made on the same day with the same tables and
\* service level but lead time L+1 instead of L returns, for every product,
\* a reorder_point no smaller than the one returned for L.
C12_NonNegativeMonotone ==
    [][(/\ inv.called /\ inv'.called
        /\ inv.outcome = "returned" /\ inv'.outcome = "returned"
        /\ inv'.op = inv.op
        /\ inv'.service_level = inv.service_level
        /\ inv'.day = inv.day
        /\ inv'.lead_time_days = inv.lead_time_days + 1)
          => \A hi \in inv'.rows :
                /\ hi.reorder_point >= 0
                /\ (inv'.op = "get_inventory_recommendations" => hi.eoq >= 0)
                /\ \A lo \in inv.rows :
                      lo.ProductID = hi.ProductID =>
                          hi.reorder_point >= lo.reorder_point]_vars

\* the dates on which product p has a line in the historical table
DemandDates(p) == {r.Date : r \in {x \in data : x.ProductID = p}}

\* C13: calculate_safety_stock gives each product
\* ceil(std * z * sqrt(lead_time_days)), or ceil(mean * 0.2) when std is
\* exactly 0, where mean and std are those of the product's daily demand
\* (the quantity summed per date) and z is the service-level factor.  Stated
\* for tables in which every product has demand on at least two dates, so
\* that the standard deviation of its daily demand is defined.
C13_SafetyStockOfDailyDemand ==
    (/\ inv.op = "calculate_safety_stock"
     /\ \A p \in HistoryProducts :
           DemandDates(p) # {} => Cardinality(DemandDates(p)) >= 2)
        => /\ inv.outcome = "returned"
           /\ {r.ProductID : r \in inv.rows} = {r.ProductID : r \in data}
           /\ \A r \in inv.rows :
                 \A st \in demand_stats(aggregate_daily_sales(data)) :
                    st.ProductID = r.ProductID =>
                        Cell(r.safety_stock) =
                            safety_stock_cell(st, service_factor(inv.service_level),
                                              inv.lead_time_days)

----------------------------------------------------------------------------
(* Claims on the association feature, checked under SpecFeatures *)

\* quantity product y sold on the date: the sum of its lines of that date
SoldOn(y, date) == {r \in data : r.ProductID = y /\ r.Date = date}

\* the links of product x on a date: (rule, consequent) with x an antecedent
\* of the rule and the consequent sold on the date
LinksOf(x, date) ==
    {l \in (DOMAIN assoc.rules) \X FeatureProducts :
        /\ x \in assoc.rules[l[1]].antecedents
        /\ l[2] \in assoc.rules[l[1]].consequents
        /\ SoldOn(l[2], date) # {}}

\* sum over a set of links of quantity * confidence, as a rational
RECURSIVE WeightedSales(_, _)
WeightedSales(links, date) ==
    IF links = {} THEN <<0, 1>>
    ELSE LET l == CHOOSE x \in links : TRUE
             c == assoc.rules[l[1]].confidence
         IN RatAdd(<<SumQuantity(SoldOn(l[2], date)) * c[1], c[2]>>,
                   WeightedSales(links \ {l}, date))

\* C14: when rules are supplied, every feature row of product X on date D
\* has AssociatedProductSales equal to the average, over the consequents Y of
\* the rules with X among the antecedents that sold on D, of Y's quantity on
\* D times the rule's confidence, and 0 when there is no such consequent.
C14_AssociatedProductSales ==
    (fc.op = "features" /\ assoc.rules # <<>>) =>
        \A r \in fc.features :
            LET links == LinksOf(r.ProductID, r.Date)
                total == WeightedSales(links, r.Date)
            IN IF links = {}
               THEN RatEq(r.AssociatedProductSales, <<0, 1>>)
               ELSE RatEq(r.AssociatedProductSales,
                          <<total[1], total[2] * Cardinality(links)>>)

\* a feature row whose product has two consequents sold on its date, with
\* different weighted sales, and a non-zero feature
C14_Witness ==
    /\ fc.op = "features"
    /\ assoc.rules # <<>>
    /\ \E r \in fc.features :
          /\ ~RatEq(r.AssociatedProductSales, <<0, 1>>)
          /\ \E l1 \in LinksOf(r.ProductID, r.Date) :
                \E l2 \in LinksOf(r.ProductID, r.Date) :
                   /\ l1 # l2
                   /\ ~RatEq(WeightedSales({l1}, r.Date), WeightedSales({l2}, r.Date))

----------------------------------------------------------------------------
(* Further claims on association mining, checked under SpecAssoc *)

\* the (antecedent, consequent) pairs of the returned rules
ReturnedSplits ==
    {<<assoc.rules[i].antecedents, assoc.rules[i].consequents>> : i \in DOMAIN assoc.rules}

\* C15: the returned rules are exactly the splits of the frequent itemsets of
\* the input into a non-empty antecedent A and a non-empty consequent C whose
\* confidence count(A u C) / count(A) reaches min_confidence and whose lift
\* reaches min_lift, and each returned rule reports that confidence.
C15_RulesAreThePassingSplits ==
    Returned =>
        /\ ReturnedSplits =
              InputPassingRules(assoc.min_support, assoc.min_confidence, assoc.min_lift)
        /\ \A i \in DOMAIN assoc.rules :
              LET r == assoc.rules[i]
              IN /\ BasketCount(r.antecedents) > 0
                 /\ RatEq(r.confidence,
                          <<BasketCount(r.antecedents \cup r.consequents),
                            BasketCount(r.antecedents)>>)

----------------------------------------------------------------------------
(* Claims on the transaction matrix, checked under SpecMatrix *)

\* C16: the matrix returned by create_transaction_matrix has one row per
\* distinct TransactionID of the input, one column per distinct ProductID of
\* the input, boolean cells, and a cell is true exactly when the product
\* appears in the transaction.
C16_MatrixIsMembership ==
    assoc.path = "matrix" =>
        LET m == assoc.transaction_matrix
        IN /\ m.index = InputTids
           /\ Cardinality(m.index) = NumBaskets
           /\ m.columns = InputProducts
           /\ \A t \in m.index : \A p \in m.columns :
                 /\ m.cell[t][p] \in BOOLEAN
                 /\ m.cell[t][p] <=> (p \in InputBasket(t))

\* a matrix of at least two rows with a true and a false cell
C16_Witness ==
    /\ assoc.path = "matrix"
    /\ Cardinality(assoc.transaction_matrix.index) >= 2
    /\ \E t \in assoc.transaction_matrix.index :
          \E p \in assoc.transaction_matrix.columns :
             \E q \in assoc.transaction_matrix.columns :
                assoc.transaction_matrix.cell[t][p] /\ ~assoc.transaction_matrix.cell[t][q]

\* itemsets of the returned itemset table
ReturnedItemsets ==
    {assoc.frequent_itemsets[i].itemsets : i \in DOMAIN assoc.frequent_itemsets}

\* C19: the returned itemsets are exactly the itemsets of 1 to 4 input
\* products whose support reaches min_support: none has more than 4 items,
\* and none of these is missing.
C19_ExactlyTheFrequentItemsets ==
    Returned =>
        /\ \A S \in ReturnedItemsets : Cardinality(S) <= 4
        /\ ReturnedItemsets = InputFrequent(assoc.min_support)

----------------------------------------------------------------------------
(* Claims on the application, checked under SpecApp *)

\* a dataset that passes validation, in the words of the specification: the
\* required columns, at least 10 records, 2 products and 5 transactions, a
\* date span of at least 7 days
PassesValidation(d) ==
    /\ {"Date", "ProductID", "Quantity"} \subseteq d.columns
    /\ Cardinality(d.rows) >= 10
    /\ Cardinality({r.ProductID : r \in d.rows}) >= 2
    /\ Cardinality({r.TransactionID : r \in d.rows}) >= 5
    /\ \E x \in d.rows : \E y \in d.rows : x.Date - y.Date >= 7

\* C17: the session's analysis data is always a dataset that passes
\* validation, and a core function is only ever invoked by a page while the
\* session holds such a dataset: an upload that fails validation never
\* becomes the session's data.
C17_OnlyValidatedData ==
    /\ \A d \in session.preprocessed_data : PassesValidation(d)
    /\ \A d \in session.data : PassesValidation(d)
    /\ (session.reached.fn # "none" =>
           /\ session.reached.dataset # {}
           /\ \A d \in session.reached.dataset : PassesValidation(d))

\* a core function was invoked, and the last upload was refused while the
\* session kept its dataset
C17_Witness ==
    /\ session.reached.fn # "none"
    /\ session.message \in {"Data has fewer than 10 records.",
                             "Data needs at least 2 unique products.",
                             "Data needs at least 5 unique transactions.",
                             "Data spans less than 7 days.",
                             "Error processing file"}
    /\ session.preprocessed_data # {}

\* C18: every line given to a core function has Quantity > 0.
C18_PositiveQuantities ==
    session.reached.fn # "none" =>
        \A r \in session.reached.lines : r.Quantity > 0

----------------------------------------------------------------------------
(* Claims on the service factor, checked under SpecSafetyStock *)

\* the table of the specification: service level, z
ServiceFactorTable ==
    {<<<<90, 100>>, <<1282, 1000>>>>, <<<<95, 100>>, <<1645, 1000>>>>,
     <<<<98, 100>>, <<2054, 1000>>>>, <<<<99, 100>>, <<2326, 1000>>>>}

\* |a - b| of two rationals with positive denominators
RatDist(a, b) ==
    LET n == a[1] * b[2] - b[1] * a[2]
    IN <<IF n < 0 THEN -n ELSE n, a[2] * b[2]>>

\* the z of the table entries nearest to the service level
NearestFactors(service_level) ==
    {e[2] : e \in {x \in ServiceFactorTable :
                     \A y \in ServiceFactorTable :
                        RatGeq(RatDist(y[1], service_level),
                               RatDist(x[1], service_level))}}

\* C21: a call of calculate_safety_stock that returns has computed every
\* safety stock with the z of the table entry of its service level, or, for
\* a service level outside the table, with the z of the nearest entry.
C21_ServiceFactorOfTheTable ==
    (inv.op = "calculate_safety_stock" /\ inv.outcome = "returned") =>
        \A r \in inv.rows :
            \E z \in NearestFactors(inv.service_level) :
                Cell(r.safety_stock) = safety_stock_cell(r, z, inv.lead_time_days)

----------------------------------------------------------------------------
(* Claims on reorder points, checked under SpecInventory *)

\* forecast rows of product p dated from the day of the call through that
\* day + lead_time_days
WindowForecast(p) ==
    {f \in forecast_demand :
        /\ f.ProductID = p
        /\ f.Date \in inv.day..(inv.day + inv.lead_time_days)}

\* the product's mean quantity per historical row, times the lead time
MeanTimesLeadTime(p) ==
    LET rows == {r \in data : r.ProductID = p}
    IN <<SumQuantity(rows) * inv.lead_time_days, Cardinality(rows)>>

----------------------------------------------------------------------------
(* Claims on the economic order quantity, checked under SpecEOQ *)

\* every product of the historical table has at least two lines, so that its
\* standard deviation exists
EveryProductHasTwoLines ==
    \A p \in {r.ProductID : r \in data} :
        Cardinality({r \in data : r.ProductID = p}) >= 2

\* no EOQ value exists for product p: the table has no Price column, or none
\* of the product's lines has a price
NoEOQValue(p) ==
    \/ \E r \in data : "Price" \notin DOMAIN r
    \/ \A r \in data : r.ProductID = p => r.Price = {}

\* C23: on a table without Price column calculate_economic_order_quantity
\* returns an empty table, and get_inventory_recommendations returns for
\* every product eoq = reorder_point * 2; on any table it gives this eoq to
\* every product for which no EOQ value exists.
C23_EOQFallback ==
    /\ (inv.op = "calculate_economic_order_quantity"
           /\ \E r \in data : "Price" \notin DOMAIN r)
          => (inv.outcome = "returned" /\ inv.rows = {})
    /\ (inv.op = "get_inventory_recommendations" /\ EveryProductHasTwoLines)
          => /\ inv.outcome = "returned"
             /\ {r.ProductID : r \in inv.rows} = {r.ProductID : r \in data}
             /\ \A r \in inv.rows :
                   NoEOQValue(r.ProductID) => r.eoq = r.reorder_point * 2

----------------------------------------------------------------------------
(* Claims on bundle recommendations, checked under SpecBundles *)

\* members of a bundle that have history
MembersWithHistory(bundle) ==
    {p \in SeqRange(bundle.bundle_items) : \E r \in data : r.ProductID = p}

\* bundles of the call that are to give a row, in the order of the call
RECURSIVE BundlesWithRow(_)
BundlesWithRow(i) ==
    IF i > Len(inv.product_bundles) THEN <<>>
    ELSE LET b == inv.product_bundles[i]
         IN IF Len(b.bundle_items) >= 2 /\ MembersWithHistory(b) # {}
            THEN <<b>> \o BundlesWithRow(i + 1)
            ELSE BundlesWithRow(i + 1)

\* the recommendation of member p when recommended for on its own
MemberRecommendation(p) ==
    LET recs == get_inventory_recommendations({r \in data : r.ProductID = p},
                                              {f \in forecast_demand : f.ProductID = p},
                                              inv.lead_time_days, inv.service_level)
    IN CHOOSE r \in recs.rows : TRUE

RECURSIVE SumOver(_, _)
SumOver(value, members) ==
    IF members = {} THEN 0
    ELSE LET p == CHOOSE x \in members : TRUE
         IN value[p] + SumOver(value, members \ {p})

\* C24: a call of get_bundle_inventory_recommendations returns no row for a
\* bundle of fewer than 2 items and, in the order of the call, one row for
\* every other bundle whose members have history: avg_safety_stock and
\* avg_reorder_point the means over these members of their own
\* recommendations, min_days_supply the least of their days_of_supply,
\* suggested_bundle_stock = round(avg_reorder_point * confidence
\* * (1 + 0.1 * (lift - 1))).
C24_BundleRows ==
    (inv.op = "get_bundle_inventory_recommendations") =>
        /\ inv.outcome = "returned"
        /\ Len(inv.rows) = Len(BundlesWithRow(1))
        /\ \A i \in DOMAIN inv.rows :
              LET b == BundlesWithRow(1)[i]
                  members == MembersWithHistory(b)
                  n == Cardinality(members)
                  rec == [p \in members |-> MemberRecommendation(p)]
                  avg_reorder_point ==
                      <<SumOver([p \in members |-> rec[p].reorder_point], members), n>>
                  row == inv.rows[i]
              IN /\ row.bundle_id = b.bundle_items
                 /\ RatEq(<<row.avg_safety_stock, 1>>,
                          <<SumOver([p \in members |-> rec[p].safety_stock], members), n>>)
                 /\ RatEq(<<row.avg_reorder_point, 1>>, avg_reorder_point)
                 /\ \E p \in members : row.min_days_supply = rec[p].days_of_supply
                 /\ \A p \in members : row.min_days_supply <= rec[p].days_of_supply
                 /\ row.suggested_bundle_stock =
                       RoundHalfEven(RatMul(RatMul(avg_reorder_point, b.confidence),
                                            RatAdd(<<1, 1>>,
                                                   RatMul(<<1, 10>>,
                                                          RatAdd(b.lift, <<-1, 1>>)))))

----------------------------------------------------------------------------
(* Claims on the lag features, checked under SpecFeatures *)

\* product p's aggregated quantity on a date, as a cell: empty when the
\* product has no line on that date
QuantityOn(p, date) ==
    LET lines == {r \in data : r.ProductID = p /\ r.Date = date}
    IN IF lines = {} THEN {} ELSE {SumQuantity(lines)}

LagOffsets == <<1, 7, 14, 30>>
LagColumnOf(i) ==
    <<"Quantity_Lag1", "Quantity_Lag7", "Quantity_Lag14", "Quantity_Lag30">>[i]

\* C25: in every feature row of product p on date D, Quantity_Lag{k} is p's
\* aggregated quantity on the date D - k, and 0 when p has no line on that
\* date; no lag or rolling column is null.
C25_LagIsQuantityKDaysBefore ==
    fc.op = "features" =>
        \A r \in fc.features :
            /\ \A i \in DOMAIN LagOffsets :
                  r[LagColumnOf(i)] =
                      fillna(QuantityOn(r.ProductID, r.Date - LagOffsets[i]), 0)
            /\ \A c \in SeqRange(LagColumns) : ~IsNull(r[c])

----------------------------------------------------------------------------
(* Claims about the future rows of predict_demand *)

ProductRows(p) == {r \in data : r.ProductID = p}

\* the product's daily records with fewer than 30 later ones
Recent30(p) ==
    LET daily == aggregate_daily_sales(ProductRows(p))
    IN {x \in daily : Cardinality({y \in daily : y.Date > x.Date}) < 30}

\* C26: the lag and rolling values of a forecasted product are the same on
\* every future row, they are the values computed from the product's history
\* alone, and of that history only the 30 most recent daily records count:
\* dropping every older record leaves them unchanged, the 30-record mean is
\* the mean of those records and the 1-day lag is the most recent quantity.
C26_LagValuesFixedFromLast30 ==
    fc.op = "predict" =>
        \A i \in DOMAIN fc.features :
            LET e == fc.features[i]
                p == e.ProductID
                recent == Recent30(p)
            IN /\ \A j \in 1..fc.horizon : \A k \in DOMAIN e.X_future[j] :
                      e.X_future[j][k].column \in SeqRange(LagColumns) =>
                          e.X_future[j][k].value = e.latest_values[e.X_future[j][k].column]
               /\ e.latest_values =
                      latest_values({r \in data : r.Date \in {x.Date : x \in recent}}, p)
               /\ Cardinality(recent) <= 30
               /\ RatEq(e.latest_values.Quantity_RollingMean30,
                        <<SumQuantity(recent), Cardinality(recent)>>)
               /\ \E x \in recent :
                      /\ \A y \in recent : y.Date <= x.Date
                      /\ e.latest_values.Quantity_Lag1 = x.Quantity

\* a two-day forecast of A from 31 daily records of which the oldest, left
\* out of the 30 most recent, has a different quantity
C26_Witness ==
    /\ fc.op = "predict"
    /\ fc.horizon = 2
    /\ Len(fc.features) > 0
    /\ fc.features[1].ProductID = "A"
    /\ Cardinality(aggregate_daily_sales(ProductRows("A"))) = 31
    /\ \E r \in data : r.ProductID = "A" /\ r.Date = 1 /\ r.Quantity = 9
    /\ "Quantity_RollingMean30" \in SeqRange(fc.feature_names_in_)

BuiltColumns ==
    {"Date", "ProductID", "AssociatedProductSales"}
        \cup SeqRange(TimeColumns) \cup SeqRange(LagColumns)
        \cup {IndicatorColumn(p) : p \in SeqRange(fc.products_to_forecast)}

AllIndicatorColumns == {"ProductID_A", "ProductID_B", "ProductID_C"}

\* C28: every row handed to the model has the stored feature columns, all of
\* them and in the stored order; a stored column that predict_demand does
\* not build holds 0; and of the ProductID indicator columns exactly the one
\* of the forecasted product holds 1, the others 0.
C28_StoredColumnsInOrder ==
    fc.op = "predict" =>
        \A i \in DOMAIN fc.features : \A j \in 1..fc.horizon :
            LET row == fc.features[i].X_future[j]
            IN /\ [k \in DOMAIN row |-> row[k].column] = fc.feature_names_in_
               /\ \A k \in DOMAIN row :
                     /\ row[k].column \notin BuiltColumns => row[k].value = 0
                     /\ row[k].column \in AllIndicatorColumns =>
                           row[k].value =
                               IF row[k].column = IndicatorColumn(fc.features[i].ProductID)
                               THEN 1 ELSE 0

\* A and B are both forecast from a model that stores a column that is not
\* built and the indicator of A
C28_Witness ==
    /\ fc.op = "predict"
    /\ Len(fc.features) = 2
    /\ fc.features[2].ProductID = "B"
    /\ "Promotion" \in SeqRange(fc.feature_names_in_)
    /\ \E k \in DOMAIN fc.features[2].X_future[1] :
          /\ fc.features[2].X_future[1][k].column = "ProductID_A"
          /\ fc.features[2].X_future[1][k].value = 0

----------------------------------------------------------------------------
(* Claim on the recommendations of every product, under SpecInventory *)

\* C29: get_inventory_recommendations completes for every historical table,
\* also one with a product of a single line, and returns exactly one row per
\* product of the table, with whole-number safety_stock, reorder_point and
\* eoq, and days_of_supply = ceil(eoq / avg_daily_demand).
C29_OneRowPerProduct ==
    inv.op = "get_inventory_recommendations" =>
        /\ inv.outcome = "returned"
        /\ \A p \in {r.ProductID : r \in data} :
              /\ Cardinality({x \in inv.rows : x.ProductID = p}) = 1
              /\ \A x \in inv.rows :
                    x.ProductID = p =>
                        /\ x.safety_stock \in Int
                        /\ x.reorder_point \in Int
                        /\ x.eoq \in Int
                        /\ x.days_of_supply =
                               CeilRat(<<x.eoq * x.avg_daily_demand[2],
                                         x.avg_daily_demand[1]>>)

----------------------------------------------------------------------------
(* Claim on the stored results of the session, under SpecApp *)

\* the stored rules and itemsets are what the analysis of the page returns
\* for the dataset d at some setting of its sliders
RulesComputedFrom(d) ==
    \E min_support \in PageMinSupports, min_confidence \in PageMinConfidences :
        LET out == perform_association_analysis(GroupedTransactionData(d), min_support,
                                                min_confidence, <<1, 1>>)
        IN /\ ~out.raised
           /\ session.frequent_itemsets = Cell(out.frequent_itemsets)
           /\ session.association_rules = Cell(out.rules)

\* the stored model and predictions are what the forecasting page obtains
\* for the dataset d at some setting of its inputs
ForecastComputedFrom(d) ==
    \E selected \in (SUBSET {r.ProductID : r \in d.rows}) \ {{}},
       train_ratio \in TrainRatios, horizon \in 1..MaxHorizon :
        LET products_to_forecast == get_dummies_ProductID(selected)
            model == train_forecasting_model(d.rows, products_to_forecast, train_ratio)
        IN /\ model.outcome = "returned"
           /\ session.forecasting_model = Cell(model)
           /\ \E model_outputs \in [DOMAIN products_to_forecast ->
                                      [1..horizon -> ModelOutputs]] :
                 session.predictions =
                     Cell(predict_demand(model_outputs, d.rows, products_to_forecast,
                                         horizon).rows)

\* C30: whatever the pages did so far, stored rules and itemsets, and a
\* stored model and predictions, were computed from the preprocessed data
\* the session holds now; right after a successful upload all four are None;
\* right after a sign-out all four, the stored data and the user are None.
C30_ResultsOfStoredData ==
    /\ (session.association_rules # {} \/ session.frequent_itemsets # {}) =>
          /\ session.preprocessed_data # {}
          /\ \A d \in session.preprocessed_data : RulesComputedFrom(d)
    /\ (session.forecasting_model # {} \/ session.predictions # {}) =>
          /\ session.preprocessed_data # {}
          /\ \A d \in session.preprocessed_data : ForecastComputedFrom(d)
    /\ session.event = "upload stored" =>
          /\ session.preprocessed_data # {}
          /\ session.association_rules = {}
          /\ session.frequent_itemsets = {}
          /\ session.forecasting_model = {}
          /\ session.predictions = {}
    /\ session.event = "sign out" =>
          /\ session.user = {}
          /\ session.data = {}
          /\ session.preprocessed_data = {}
          /\ session.transaction_data = {}
          /\ session.product_list = {}
          /\ session.association_rules = {}
          /\ session.frequent_itemsets = {}
          /\ session.forecasting_model = {}
          /\ session.predictions = {}

\* rules are stored, and since the analysis that stored them an upload was
\* refused, so that the session still holds the data they were mined from
C30_Witness ==
    /\ session.association_rules # {}
    /\ session.frequent_itemsets # {}
    /\ session.event = "upload refused"
    /\ session.reached.fn = "perform_association_analysis"
    /\ session.reached.dataset = session.preprocessed_data

====
